---- MODULE Spec2Model ----
(***************************************************************************)
(* Dispatch scheduling engine of nemo-b2b-api: the reminder eligibility    *)
(* predicate (utils/reminder-filter.ts), the campaign window gate and the  *)
(* two scheduler loops (schedulers/reminder.ts, schedulers/campaign.ts)    *)
(* run by several replicas against one shared database.                    *)
(*                                                                         *)
(* Instants are integers in milliseconds since an arbitrary origin, as     *)
(* Date.getTime() gives them.  The specifications share the variables:     *)
(*   SpecFilter  one call of shouldTriggerReminder on drawn inputs         *)
(*   SpecWindow  one call of isWithinCallWindow on drawn inputs            *)
(*   Spec        the scheduler loops of the replicas                       *)
(*   SpecOps     Spec plus the HTTP handlers that write the same rows      *)
(*   SpecEval    the campaign loop with its evaluation phase               *)
(***************************************************************************)
EXTENDS Integers, Sequences, FiniteSets, TLC

VARIABLES
    \* ---- one call of shouldTriggerReminder
    f_appointment,   \* the AppointmentForReminder argument
    f_now,           \* the now argument (ms)
    f_called,        \* TRUE once the call has returned
    f_result,        \* the value returned
    \* ---- one call of isWithinCallWindow
    w_campaign,      \* the campaign argument (allowed_days, call_window_start/end)
    w_local,         \* the wall clock of `new Date()` in the business timezone
    w_hour24,        \* whether the runtime prints the midnight hour as "24"
    w_called,        \* TRUE once the call has returned
    w_result,        \* the value returned
    \* ---- the deployment: shared database, Voice Provider, replicas
    clock,           \* the current instant (ms)
    livekitEnabled,  \* clients/livekit.ts: whether the AI path is configured
    customers,       \* b2b_customers: id -> row
    appointments,    \* b2b_appointments joined with the customer: id -> row
    campaigns,       \* b2b_campaigns joined with the business: id -> row
    campaign_calls,  \* b2b_campaign_calls joined with the customer: id -> row
    call_logs,       \* b2b_call_logs: the number of rows linked to each work item
    placed,          \* Voice Provider: the number of calls placed for each work item
    rem,             \* per replica: the run of checkAndTriggerReminders
    cam,             \* per replica: the run of runCampaignScheduler
    hist,            \* per work item: who attempted and who won the claim since
                     \* the item was last (re)armed, and whether it was ever reverted
    \* ---- one call on the basic path and its webhook
    tel_call,        \* Voice Provider: the call leg and the commands it was sent
    webhooks,        \* call-events webhooks on their way to the server
    timers,          \* pending setTimeout callbacks that hang up
    call_log,        \* b2b_call_logs: the row of the call
    handled,         \* the events the webhook has answered, in order
    \* ---- calls on the AI path
    geminiSessions,  \* services/gemini-session.ts: the keys of the session map
    ai,              \* per correlation handle: the call, its handlers, its sockets
    \* ---- the configuration and the requests of the agent and of the dashboard
    config,          \* config.ts: which secrets and keys are set
    log_rows,        \* b2b_call_logs: the rows of the agent's calls, id -> row
    transcript_reqs, \* POST /api/calls/:id/transcript: the requests under way
    create_reqs,     \* POST /api/campaigns: the requests under way
    toggle_reqs,     \* POST /api/campaigns/:id/toggle: the requests under way
    \* ---- the staggering of one evaluation, as a function of its inputs
    s_campaign, s_offset, s_now, s_n, s_called, s_result

filterVars == <<f_appointment, f_now, f_called, f_result>>
windowVars == <<w_campaign, w_local, w_hour24, w_called, w_result>>
envVars == <<clock, livekitEnabled, customers>>
reminderVars == <<appointments, rem>>
campaignVars == <<campaigns, campaign_calls, cam>>
sharedVars == <<call_logs, placed, hist>>
loopVars == <<envVars, reminderVars, campaignVars, sharedVars>>
callVars == <<tel_call, webhooks, timers, call_log, handled>>
sessionVars == <<geminiSessions, ai>>
callbackVars == <<config, log_rows, transcript_reqs, create_reqs, toggle_reqs>>
staggerVars == <<s_campaign, s_offset, s_now, s_n, s_called, s_result>>
webhookVars == <<callVars, sessionVars, callbackVars, staggerVars>>
vars == <<filterVars, windowVars, loopVars, webhookVars>>

\* A nullable column or optional field is a tagged value.
NULL == [kind |-> "null"]
UNDEFINED == [kind |-> "undefined"]
Val(v) == [kind |-> "value", value |-> v]
Nullish(x) == x.kind \in {"null", "undefined"}

MsPerMinute == 60 * 1000

(***************************************************************************)
(* utils/reminder-filter.ts                                                *)
(***************************************************************************)

\* reminder_minutes_before ?? 30
DefaultReminderMinutes == 30

\* `x ?? d`: d exactly when x is null or undefined (0 is kept)
Coalesce(x, d) == IF Nullish(x) THEN d ELSE x.value

reminderMinutesOf(appointment) ==
    Coalesce(appointment.reminder_minutes_before, DefaultReminderMinutes)

reminderTimeOf(appointment) ==
    appointment.scheduled_at - reminderMinutesOf(appointment) * MsPerMinute

\* mutant: the creation check suppresses equality too (>= for >)
shouldTriggerReminder_skipEq(appointment, now) ==
    LET scheduledAt == appointment.scheduled_at
        reminderMinutes == reminderMinutesOf(appointment)
        reminderTime == reminderTimeOf(appointment)
    IN  IF reminderMinutes = 0 THEN scheduledAt <= now
        ELSE IF appointment.created_at >= reminderTime THEN FALSE
        ELSE reminderTime <= now

\* mutant: the zero lead goes through the creation check as every other lead
shouldTriggerReminder_noBypass(appointment, now) ==
    LET reminderTime == reminderTimeOf(appointment)
    IN  IF appointment.created_at > reminderTime THEN FALSE
        ELSE reminderTime <= now

\* mutant: `||` for `??`, so that a lead of 0 becomes the default
shouldTriggerReminder_orDefault(appointment, now) ==
    LET scheduledAt == appointment.scheduled_at
        lead == appointment.reminder_minutes_before
        reminderMinutes == IF Nullish(lead) \/ lead.value = 0
                           THEN DefaultReminderMinutes ELSE lead.value
        reminderTime == scheduledAt - reminderMinutes * MsPerMinute
    IN  IF reminderMinutes = 0 THEN scheduledAt <= now
        ELSE IF appointment.created_at > reminderTime THEN FALSE
        ELSE reminderTime <= now

shouldTriggerReminder(appointment, now) ==
    LET scheduledAt == appointment.scheduled_at
        reminderMinutes == reminderMinutesOf(appointment)
        reminderTime == reminderTimeOf(appointment)
    IN  IF reminderMinutes = 0 THEN scheduledAt <= now
        ELSE IF appointment.created_at > reminderTime THEN FALSE
        ELSE reminderTime <= now

\* ---- inputs of SpecFilter
MaxMinute == 32
MaxLead == 2
FilterTimes == {m * MsPerMinute : m \in 0..MaxMinute}
FilterLeads == {NULL, UNDEFINED} \cup {Val(n) : n \in 0..MaxLead}

FilterIdle ==
    /\ f_appointment = [scheduled_at |-> 0, created_at |-> 0,
                        reminder_minutes_before |-> NULL]
    /\ f_now = 0
    /\ f_called = FALSE
    /\ f_result = FALSE

FilterInit ==
    /\ f_appointment \in [scheduled_at : FilterTimes, created_at : FilterTimes,
                          reminder_minutes_before : FilterLeads]
    /\ f_now \in FilterTimes
    /\ f_called = FALSE
    /\ f_result = FALSE

FilterCall ==
    /\ ~f_called
    /\ f_called' = TRUE
    /\ f_result' = shouldTriggerReminder(f_appointment, f_now)
    /\ UNCHANGED <<f_appointment, f_now, windowVars, loopVars, webhookVars>>

(***************************************************************************)
(* Properties of shouldTriggerReminder (SpecFilter)                        *)
(***************************************************************************)

\* The lead and the reminder time as section 4.1 of the specification states them.
StatedLead ==
    IF f_appointment.reminder_minutes_before \in {NULL, UNDEFINED}
    THEN 30 ELSE f_appointment.reminder_minutes_before.value
StatedReminderTime == f_appointment.scheduled_at - StatedLead * 60000

\* C3: shouldTriggerReminder(appointment, now) is true iff (lead = 0 and
\* now >= scheduled_at) or (created_at <= reminderTime and now >= reminderTime),
\* with lead = reminder_minutes_before, 30 when null or undefined, and
\* reminderTime = scheduled_at - lead minutes.
C3_TriggerIff ==
    f_called =>
        (f_result <=>
            \/ (StatedLead = 0 /\ f_now >= f_appointment.scheduled_at)
            \/ (/\ f_appointment.created_at <= StatedReminderTime
                /\ f_now >= StatedReminderTime))

\* C3 witness: a zero lead given explicitly (not defaulted) triggers at scheduled_at.
C3_Witness ==
    /\ f_called /\ f_result
    /\ f_appointment.reminder_minutes_before = Val(0)
    /\ f_now = f_appointment.scheduled_at
    /\ f_appointment.created_at > f_appointment.scheduled_at - 30 * 60000

\* C4: for lead # 0 an appointment created strictly after reminderTime never
\* triggers, whatever now is; created_at = reminderTime is not suppressed and
\* triggers as soon as now >= reminderTime.
C4_AntiSpam ==
    (f_called /\ StatedLead # 0) =>
        /\ (f_appointment.created_at > StatedReminderTime => ~f_result)
        /\ (f_appointment.created_at = StatedReminderTime =>
                (f_result <=> f_now >= StatedReminderTime))

\* C4 witness: created exactly at reminderTime, called at reminderTime, triggers.
C4_Witness ==
    /\ f_called /\ f_result
    /\ StatedLead # 0
    /\ f_appointment.created_at = StatedReminderTime
    /\ f_now = StatedReminderTime

\* C5: for lead = 0 the result is true iff now >= scheduled_at whatever
\* created_at is, also when created_at is later than scheduled_at.
C5_ZeroLead ==
    (f_called /\ StatedLead = 0) =>
        (f_result <=> f_now >= f_appointment.scheduled_at)

\* C5 witness: a zero-lead appointment created after its own scheduled_at triggers.
C5_Witness ==
    /\ f_called /\ f_result
    /\ StatedLead = 0
    /\ f_appointment.created_at > f_appointment.scheduled_at

(***************************************************************************)
(* schedulers/campaign.ts: the window gate                                 *)
(***************************************************************************)

Days == {"SUN", "MON", "TUE", "WED", "THU", "FRI", "SAT"}

\* 'MON,TUE,WED,THU,FRI'.split(',')
DefaultAllowedDays == <<"MON", "TUE", "WED", "THU", "FRI">>
\* '09:00' and '17:00', as the hour and minute fields of the string
DefaultWindowStart == <<9, 0>>
DefaultWindowEnd == <<17, 0>>

\* `x || d` on a string column: d when x is null, undefined or the empty string
OrDefault(x, d) == IF Nullish(x) \/ x.value = <<>> THEN d ELSE x.value

\* String.prototype.trim on one token of allowed_days.split(',')
Trim(s) ==
    CASE s = " MON" -> "MON" [] s = " TUE" -> "TUE" [] s = " WED" -> "WED"
      [] s = " THU" -> "THU" [] s = " FRI" -> "FRI" [] s = " SAT" -> "SAT"
      [] s = " SUN" -> "SUN" [] OTHER -> s

\* a 'HH:MM' string is the pair of its fields; (hours || 0) * 60 + (minutes || 0)
parseTimeToMinutes(timeStr) == timeStr[1] * 60 + timeStr[2]

\* toLocaleDateString('en-US', {weekday: 'short', timeZone}).toUpperCase().slice(0, 3)
getDayAbbrev(local) == local.day

\* toLocaleTimeString('en-US', {hour12: false, hour: '2-digit', minute: '2-digit'}):
\* the hour of midnight is printed "24" by runtimes that resolve hour12: false
\* to the h24 cycle and "00" by those that resolve it to h23.
formatTime(local, hour24) ==
    <<IF local.hour = 0 /\ hour24 THEN 24 ELSE local.hour, local.minute>>

getCurrentMinutesInTimezone(local, hour24) ==
    parseTimeToMinutes(formatTime(local, hour24))

allowedDaysOf(campaign) ==
    LET tokens == OrDefault(campaign.allowed_days, DefaultAllowedDays)
    IN  {Trim(tokens[i]) : i \in DOMAIN tokens}

isWithinCallWindow(campaign, local, hour24) ==
    LET currentDay == getDayAbbrev(local)
    IN  IF currentDay \notin allowedDaysOf(campaign) THEN FALSE
        ELSE LET currentMinutes == getCurrentMinutesInTimezone(local, hour24)
                 windowStart == parseTimeToMinutes(
                     OrDefault(campaign.call_window_start, DefaultWindowStart))
                 windowEnd == parseTimeToMinutes(
                     OrDefault(campaign.call_window_end, DefaultWindowEnd))
             IN  currentMinutes >= windowStart /\ currentMinutes <= windowEnd

\* ---- inputs of SpecWindow
WindowHours == {0, 8, 9, 17, 23}
WindowMinutes == {0, 1, 59}
WindowAllowedDays ==
    {NULL, Val(<<"MON">>), Val(<<"MON", " TUE">>), Val(<<"SAT", "SUN">>),
     Val(<<"SUN", "MON", "TUE", "WED", "THU", "FRI", "SAT">>)}
WindowBounds == {NULL, Val(<<0, 0>>), Val(<<9, 0>>), Val(<<17, 0>>), Val(<<23, 59>>)}
WindowLocals == [day : Days, hour : WindowHours, minute : WindowMinutes]

WindowIdle ==
    /\ w_campaign = [allowed_days |-> NULL, call_window_start |-> NULL,
                     call_window_end |-> NULL]
    /\ w_local = [day |-> "MON", hour |-> 9, minute |-> 0]
    /\ w_hour24 = FALSE
    /\ w_called = FALSE
    /\ w_result = FALSE

WindowInit ==
    /\ w_campaign \in [allowed_days : WindowAllowedDays,
                       call_window_start : WindowBounds,
                       call_window_end : WindowBounds]
    /\ w_local \in WindowLocals
    /\ w_hour24 \in BOOLEAN
    /\ w_called = FALSE
    /\ w_result = FALSE

WindowCall ==
    /\ ~w_called
    /\ w_called' = TRUE
    /\ w_result' = isWithinCallWindow(w_campaign, w_local, w_hour24)
    /\ UNCHANGED <<w_campaign, w_local, w_hour24, filterVars, loopVars, webhookVars>>

(***************************************************************************)
(* Properties of isWithinCallWindow (SpecWindow)                           *)
(***************************************************************************)

\* The campaign's window as section 4.3 of the specification states it, with
\* the column defaults of the campaign (Monday to Friday, 09:00 to 17:00).
StatedAllowedDays ==
    IF w_campaign.allowed_days = NULL THEN {"MON", "TUE", "WED", "THU", "FRI"}
    ELSE {Trim(w_campaign.allowed_days.value[i]) :
            i \in DOMAIN w_campaign.allowed_days.value}
StatedWindowStart ==
    IF w_campaign.call_window_start = NULL THEN 9 * 60
    ELSE w_campaign.call_window_start.value[1] * 60
         + w_campaign.call_window_start.value[2]
StatedWindowEnd ==
    IF w_campaign.call_window_end = NULL THEN 17 * 60
    ELSE w_campaign.call_window_end.value[1] * 60
         + w_campaign.call_window_end.value[2]
StatedLocalMinutes == w_local.hour * 60 + w_local.minute

\* C10: isWithinCallWindow is true exactly when the local weekday is in
\* allowed_days and window_start <= local minutes since midnight <= window_end
\* (both ends included), and false otherwise.
C10_WindowGate ==
    w_called =>
        (w_result <=>
            /\ w_local.day \in StatedAllowedDays
            /\ StatedWindowStart <= StatedLocalMinutes
            /\ StatedLocalMinutes <= StatedWindowEnd)

(***************************************************************************)
(* The deployment: replicas, the shared database, the Voice Provider       *)
(***************************************************************************)

\* ---- bounds of the loop specifications
MaxReplicas == 2
MaxItems == 2
MaxClockMinutes == 1
MaxCalls == 2

Replicas == 1..MaxReplicas
MaxCampaigns == 2
AppointmentIds == {<<"apt", i>> : i \in 1..MaxItems}
CallIds == {<<"call", i>> : i \in 1..MaxItems}
CampaignIds == 1..MaxCampaigns
ClockTimes == {m * MsPerMinute : m \in 0..MaxClockMinutes}

\* a regular expression that lets every phone through
matchesE164_any(phone) == TRUE
\* /^\+?[1-9]\d{1,14}$/ on a phone given as the sequence of its characters
Digits == {"0", "1", "2", "3", "4", "5", "6", "7", "8", "9"}
matchesE164(phone) ==
    LET rest == IF Len(phone) > 0 /\ phone[1] = "+" THEN Tail(phone) ELSE phone
    IN  /\ Len(rest) >= 2 /\ Len(rest) <= 15
        /\ rest[1] \in Digits \ {"0"}
        /\ \A i \in 2..Len(rest) : rest[i] \in Digits

\* customer?.phone is falsy: no customer row, null phone, or the empty string
phoneMissing(phone) == Nullish(phone) \/ phone.value = <<>>

\* the customer phones drawn for the work items
Phones == {NULL, Val(<<"+", "1", "5">>), Val(<<"0", "1", "5">>)}

SeqOfSet(S) ==
    {q \in [1..Cardinality(S) -> S] : \A i, j \in DOMAIN q : i # j => q[i] # q[j]}
Range(q) == {q[i] : i \in DOMAIN q}

\* the claim's condition on the row, .eq('status', from), written without it
claimable_unconditional(row, from) == TRUE
\* the claim's condition on the row: .eq('status', from)
claimable(row, from) == row.status = from

\* History of a work item, for the properties: the replicas whose claim has run
\* since the item last entered its claimable state, those among them whose
\* claim took the row, whether a revert has put the item back, and whether
\* the phone check has rejected it.
NoHist == [attempts |-> {}, wins |-> {}, reverted |-> FALSE, examined |-> FALSE]

(***************************************************************************)
(* schedulers/reminder.ts: checkAndTriggerReminders                        *)
(***************************************************************************)

HourMs == 60 * 60 * 1000
DayMs == 24 * 60 * 60 * 1000

\* a head that lets every tick in
mayStart_always(running) == TRUE
\* if (schedulerRunning) return: the head of both loops
mayStart(running) == ~running

\* the flag and the locals of a run; active is history for the properties: the
\* runs of the loop that have started in the process and have not returned
ReminderIdle ==
    [running |-> FALSE, pc |-> "idle", pending |-> <<>>, idx |-> 0, errs |-> {},
     active |-> 0]

\* a query without the bound one day ahead
reminderCandidates_unbounded(now) ==
    {a \in DOMAIN appointments :
        /\ appointments[a].status = "SCHEDULED"
        /\ appointments[a].scheduled_at >= now - HourMs}

\* .eq('status', 'SCHEDULED').lte('scheduled_at', now + 24h).gte('scheduled_at', now - 1h)
reminderCandidates(now) ==
    {a \in DOMAIN appointments :
        /\ appointments[a].status = "SCHEDULED"
        /\ appointments[a].scheduled_at <= now + DayMs
        /\ appointments[a].scheduled_at >= now - HourMs}

\* appointments?.filter(apt => shouldTriggerReminder(apt, now))
pendingReminders(now) ==
    {a \in reminderCandidates(now) : shouldTriggerReminder(appointments[a], now)}

\* the item the loop body is working on
reminderCurrent(r) == rem[r].pending[rem[r].idx]

\* a return that leaves the flag set
reminderReturn_keepsFlag(s) ==
    [ReminderIdle EXCEPT !.active = s.active - 1, !.running = TRUE]
\* the run returns: `finally` clears schedulerRunning and the locals die
reminderReturn(s) == [ReminderIdle EXCEPT !.active = s.active - 1]

\* `continue`, or the end of the loop body: the next item, or the end of the run
reminderContinue(s) ==
    IF s.idx < Len(s.pending)
    THEN [s EXCEPT !.idx = @ + 1, !.pc = "item"]
    ELSE reminderReturn(s)

\* lines 12-66: the running flag, `now`, the candidate query (rows in any
\* order), the filter, the early returns.  The flag is local to the process and
\* the query is the run's first access to the database, so the two are one step.
ReminderStart(r) ==
    /\ mayStart(rem[r].running)
    /\ \/ \* the query returned an error
          rem' = [rem EXCEPT ![r] =
              reminderReturn([ReminderIdle EXCEPT !.active = rem[r].active + 1])]
       \/ \E q \in SeqOfSet(pendingReminders(clock)) :
            rem' = [rem EXCEPT ![r] =
                IF Len(q) = 0
                THEN reminderReturn([ReminderIdle EXCEPT !.active = rem[r].active + 1])
                ELSE [ReminderIdle EXCEPT !.running = TRUE, !.pc = "item",
                                          !.pending = q, !.idx = 1,
                                          !.active = rem[r].active + 1]]
    /\ UNCHANGED <<filterVars, windowVars, webhookVars, envVars, appointments, campaignVars, sharedVars>>

\* lines 12-15: a timer tick while the previous run is still awaiting
ReminderBusy(r) ==
    /\ rem[r].running
    /\ UNCHANGED vars

\* lines 73-103: the phone checks and the atomic claim
\*   .update({status: 'REMINDED'}).eq('id', id).eq('status', 'SCHEDULED').select()
ReminderClaim(r) ==
    /\ rem[r].pc = "item"
    /\ LET a == reminderCurrent(r)
           phone == appointments[a].phone
       IN  IF phoneMissing(phone) \/ ~matchesE164(phone.value)
           THEN \* log.error, continue
                /\ rem' = [rem EXCEPT ![r] =
                       reminderContinue([@ EXCEPT !.errs = @ \cup {a}])]
                /\ UNCHANGED <<appointments, hist>>
           ELSE \/ \* claimError: the update did not run
                   /\ rem' = [rem EXCEPT ![r] =
                          reminderContinue([@ EXCEPT !.errs = @ \cup {a}])]
                   /\ UNCHANGED <<appointments, hist>>
                \/ \* zero rows: already claimed by another instance
                   /\ ~claimable(appointments[a], "SCHEDULED")
                   /\ rem' = [rem EXCEPT ![r] = reminderContinue(@)]
                   /\ hist' = [hist EXCEPT ![a].attempts = @ \cup {r}]
                   /\ UNCHANGED appointments
                \/ \* one row: claimed
                   /\ claimable(appointments[a], "SCHEDULED")
                   /\ appointments' = [appointments EXCEPT ![a].status = "REMINDED"]
                   /\ rem' = [rem EXCEPT ![r].pc = "dispatch"]
                   /\ hist' = [hist EXCEPT ![a].attempts = @ \cup {r},
                                           ![a].wins = @ \cup {r}]
    /\ UNCHANGED <<filterVars, windowVars, webhookVars, envVars, campaignVars, call_logs, placed>>

\* the dispatch with a Voice Provider that places the call and then raises
ReminderDispatch_placedThenRaised(r) ==
    /\ rem[r].pc = "dispatch"
    /\ LET a == reminderCurrent(r)
       IN  /\ placed[a] < MaxCalls
           /\ placed' = [placed EXCEPT ![a] = @ + 1]
           /\ \/ rem' = [rem EXCEPT ![r] = [@ EXCEPT
                     !.pc = "revert", !.errs = @ \cup {a}]]
              \/ rem' = [rem EXCEPT ![r].pc = "log"]
    /\ UNCHANGED <<filterVars, windowVars, webhookVars, envVars, appointments, campaignVars, call_logs, hist>>

\* lines 113-194: the template, then the Voice Provider (createDispatch and
\* createSipParticipant when LiveKit is configured, else telnyx.calls.dial);
\* a call that raises places nothing
ReminderDispatch(r) ==
    /\ rem[r].pc = "dispatch"
    /\ LET a == reminderCurrent(r)
       IN  \/ \* the provider raises: to the catch block
              /\ rem' = [rem EXCEPT ![r] = [@ EXCEPT
                     !.pc = "revert", !.errs = @ \cup {a}]]
              /\ UNCHANGED placed
           \/ \* the call is placed
              /\ placed[a] < MaxCalls
              /\ placed' = [placed EXCEPT ![a] = @ + 1]
              /\ rem' = [rem EXCEPT ![r].pc = "log"]
    /\ UNCHANGED <<filterVars, windowVars, webhookVars, envVars, appointments, campaignVars, call_logs, hist>>

\* lines 165-173, 198-204: the CallLog row linked to the appointment
ReminderLog(r) ==
    /\ rem[r].pc = "log"
    /\ LET a == reminderCurrent(r)
       IN  /\ call_logs' = [call_logs EXCEPT ![a] = @ + 1]
           /\ rem' = [rem EXCEPT ![r] = reminderContinue(@)]
    /\ UNCHANGED <<filterVars, windowVars, webhookVars, envVars, appointments, campaignVars, placed, hist>>

\* a catch block that logs the failure and leaves the run
ReminderRevert_abort(r) ==
    /\ rem[r].pc = "revert"
    /\ LET a == reminderCurrent(r)
       IN  /\ appointments' = [appointments EXCEPT ![a].status = "SCHEDULED"]
           /\ hist' = [hist EXCEPT ![a] = [@ EXCEPT
                  !.attempts = {}, !.wins = {}, !.reverted = TRUE]]
           /\ rem' = [rem EXCEPT ![r] = reminderReturn(@)]
    /\ UNCHANGED <<filterVars, windowVars, webhookVars, envVars, campaignVars, call_logs, placed>>

\* a catch block that logs the failure and leaves the claim in place
ReminderRevert_keepsClaim(r) ==
    /\ rem[r].pc = "revert"
    /\ rem' = [rem EXCEPT ![r] = reminderContinue(@)]
    /\ UNCHANGED <<filterVars, windowVars, webhookVars, envVars, appointments, campaignVars,
                   call_logs, placed, hist>>

\* lines 207-214: the catch block
\*   .update({status: 'SCHEDULED'}).eq('id', appointment.id)
ReminderRevert(r) ==
    /\ rem[r].pc = "revert"
    /\ LET a == reminderCurrent(r)
       IN  /\ appointments' = [appointments EXCEPT ![a].status = "SCHEDULED"]
           /\ hist' = [hist EXCEPT ![a] = [@ EXCEPT
                  !.attempts = {}, !.wins = {}, !.reverted = TRUE]]
           /\ rem' = [rem EXCEPT ![r] = reminderContinue(@)]
    /\ UNCHANGED <<filterVars, windowVars, webhookVars, envVars, campaignVars, call_logs, placed>>

\* time passes
Tick ==
    /\ clock + MsPerMinute \in ClockTimes
    /\ clock' = clock + MsPerMinute
    /\ UNCHANGED <<filterVars, windowVars, webhookVars, livekitEnabled, customers, reminderVars,
                   campaignVars, sharedVars>>

ReminderNext ==
    \E r \in Replicas :
        \/ ReminderStart(r)
        \/ ReminderBusy(r)
        \/ ReminderClaim(r)
        \/ ReminderDispatch(r)
        \/ ReminderLog(r)
        \/ ReminderRevert(r)

(***************************************************************************)
(* schedulers/campaign.ts: runCampaignScheduler                            *)
(***************************************************************************)

\* The business-local wall clock of an instant: instant 0 is Monday 09:00 in
\* every business timezone of the model.
OriginMinutes == 9 * 60
WeekDays == <<"MON", "TUE", "WED", "THU", "FRI", "SAT", "SUN">>
wallClock(t) ==
    LET m == OriginMinutes + (t \div MsPerMinute)
    IN  [day |-> WeekDays[((m \div 1440) % 7) + 1],
         hour |-> (m \div 60) % 24,
         minute |-> m % 60]

\* campaign.max_concurrent_calls || 2 and campaign.min_minutes_between_calls || 5
DefaultMaxConcurrentCalls == 2
DefaultMinMinutesBetweenCalls == 5

\* `x || d` on a numeric column: d when x is null, undefined or 0
NumOrDefault(x, d) == IF Nullish(x) \/ x.value = 0 THEN d ELSE x.value

\* the locals of a run: of the campaign rows fetched, the ids and the one
\* column that changes, next_run_at; the fields of the last line are history
\* for the properties: the campaigns this run has found outside their call
\* window, the rows the run has inserted for the current campaign, the
\* campaigns the run has left for their spacing, the count of IN_PROGRESS calls
\* the run has read for the current campaign and the calls it has placed for it
CampaignIdle ==
    [running |-> FALSE, pc |-> "idle", now |-> 0, campaigns |-> <<>>,
     next_run_at |-> <<>>, ci |-> 0,
     queued |-> <<>>, qi |-> 0, currentInProgress |-> 0,
     customers |-> <<>>, cu |-> 0, eligibleCustomers |-> <<>>, ei |-> 0,
     errs |-> {}, gated |-> {}, inserted |-> {}, spaced |-> {}, counted |-> 0,
     dispatched |-> 0, active |-> 0]

campaignCurrent(r) == cam[r].campaigns[cam[r].ci]
callCurrent(r) == cam[r].queued[cam[r].qi]

\* .eq('campaign_id', id).eq('status', 'QUEUED').lte('scheduled_for', now)
dueQueuedCalls(c, now) ==
    {k \in DOMAIN campaign_calls :
        /\ campaign_calls[k].campaign_id = c
        /\ campaign_calls[k].status = "QUEUED"
        /\ campaign_calls[k].scheduled_for <= now}

\* .order('scheduled_for', {ascending: true}): ties in any order
orderedByScheduledFor(S) ==
    {q \in SeqOfSet(S) : \A i, j \in DOMAIN q :
        i < j => campaign_calls[q[i]].scheduled_for <= campaign_calls[q[j]].scheduled_for}

\* .eq('campaign_id', id).eq('status', 'IN_PROGRESS') with count: 'exact'
inProgressCount(c) ==
    Cardinality({k \in DOMAIN campaign_calls :
        campaign_calls[k].campaign_id = c /\ campaign_calls[k].status = "IN_PROGRESS"})

\* .in('status', ['IN_PROGRESS', 'COMPLETED']).order('started_at', {ascending: false})
\* .limit(1).single(): NULL when there is no such row, and when one of them has a
\* null started_at (a descending order puts nulls first)
lastDispatchedStartedAt(c) ==
    LET rows == {k \in DOMAIN campaign_calls :
                    /\ campaign_calls[k].campaign_id = c
                    /\ campaign_calls[k].status \in {"IN_PROGRESS", "COMPLETED"}}
    IN  IF rows = {} \/ \E k \in rows : Nullish(campaign_calls[k].started_at)
        THEN NULL
        ELSE Val(CHOOSE t \in {campaign_calls[k].started_at.value : k \in rows} :
                    \A k \in rows : campaign_calls[k].started_at.value <= t)

\* the run returns: `finally` clears campaignSchedulerRunning and the locals
\* die; the history of the campaigns left for their spacing stays until the
\* next run
campaignReturn(s) ==
    [CampaignIdle EXCEPT !.spaced = s.spaced, !.active = s.active - 1]

\* `continue` of the campaign loop, or the end of its body
campaignContinue(s) ==
    IF s.ci < Len(s.campaigns)
    THEN [s EXCEPT !.ci = @ + 1, !.pc = "campaign", !.queued = <<>>, !.qi = 0,
                   !.currentInProgress = 0, !.customers = <<>>, !.cu = 0,
                   !.eligibleCustomers = <<>>, !.ei = 0, !.inserted = {},
                   !.counted = 0, !.dispatched = 0]
    ELSE campaignReturn(s)

\* lines 262-264: after the dispatch phase, the evaluation phase when it is due:
\* campaign.next_run_at && new Date(campaign.next_run_at) <= now
evaluationDue(s) ==
    LET next_run_at == s.next_run_at[s.campaigns[s.ci]]
    IN  /\ ~Nullish(next_run_at)
        /\ next_run_at.value <= s.now

\* the item loop is left (exhausted, or `break` at the concurrency cap)
afterDispatchPhase(s) ==
    IF evaluationDue(s)
    THEN [s EXCEPT !.pc = "evaluate"]
    ELSE campaignContinue(s)

\* `continue` of the item loop, or the end of its body
callContinue(s) ==
    IF s.qi < Len(s.queued)
    THEN [s EXCEPT !.qi = @ + 1, !.pc = "call"]
    ELSE afterDispatchPhase(s)

\* a run that first fails the calls left IN_PROGRESS by earlier runs
CampaignStart_reaps(r) ==
    /\ mayStart(cam[r].running)
    /\ \E q \in SeqOfSet({c \in DOMAIN campaigns : campaigns[c].enabled}) :
         cam' = [cam EXCEPT ![r] =
             IF Len(q) = 0
             THEN campaignReturn([CampaignIdle EXCEPT !.active = cam[r].active + 1])
             ELSE [CampaignIdle EXCEPT !.running = TRUE, !.pc = "campaign",
                       !.active = cam[r].active + 1,
                       !.now = clock, !.campaigns = q, !.ci = 1,
                       !.next_run_at =
                           [c \in Range(q) |-> campaigns[c].next_run_at]]]
    /\ campaign_calls' = [k \in DOMAIN campaign_calls |->
           IF /\ campaign_calls[k].status = "IN_PROGRESS"
              /\ campaign_calls[k].started_at.value < clock
           THEN [campaign_calls[k] EXCEPT !.status = "FAILED"]
           ELSE campaign_calls[k]]
    /\ UNCHANGED <<filterVars, windowVars, webhookVars, envVars, reminderVars, campaigns,
                   sharedVars>>

\* lines 50-75: the running flag, `now`, the enabled campaigns (rows in any
\* order), the early returns.  The flag is local to the process and the query
\* is the run's first access to the database, so the two are one step.
CampaignStart(r) ==
    /\ mayStart(cam[r].running)
    /\ \/ \* the query returned an error
          cam' = [cam EXCEPT ![r] =
              campaignReturn([CampaignIdle EXCEPT !.active = cam[r].active + 1])]
       \/ \E q \in SeqOfSet({c \in DOMAIN campaigns : campaigns[c].enabled}) :
            cam' = [cam EXCEPT ![r] =
                IF Len(q) = 0
                THEN campaignReturn([CampaignIdle EXCEPT !.active = cam[r].active + 1])
                ELSE [CampaignIdle EXCEPT !.running = TRUE, !.pc = "campaign",
                          !.active = cam[r].active + 1,
                          !.now = clock, !.campaigns = q, !.ci = 1,
                          !.next_run_at =
                              [c \in Range(q) |-> campaigns[c].next_run_at]]]
    /\ UNCHANGED <<filterVars, windowVars, webhookVars, envVars, reminderVars, campaigns,
                   campaign_calls, sharedVars>>

\* lines 50-53: a timer tick while the previous run is still awaiting
CampaignBusy(r) ==
    /\ cam[r].running
    /\ UNCHANGED vars

\* a gate that holds back the dispatch phase alone
CampaignGate_evaluatesAnyway(r) ==
    /\ cam[r].pc = "campaign"
    /\ LET c == campaignCurrent(r)
       IN  IF ~campaigns[c].timezone_valid
           THEN cam' = [cam EXCEPT ![r] =
                    campaignContinue([@ EXCEPT !.errs = @ \cup {<<"campaign", c>>}])]
           ELSE IF ~isWithinCallWindow(campaigns[c], wallClock(clock), w_hour24)
           THEN cam' = [cam EXCEPT ![r] =
                    afterDispatchPhase([@ EXCEPT !.gated = @ \cup {c}])]
           ELSE \/ cam' = [cam EXCEPT ![r] =
                       campaignContinue([@ EXCEPT !.errs = @ \cup {<<"campaign", c>>}])]
                \/ \E q \in orderedByScheduledFor(dueQueuedCalls(c, cam[r].now)) :
                     cam' = [cam EXCEPT ![r] =
                         IF Len(q) = 0
                         THEN afterDispatchPhase(@)
                         ELSE [@ EXCEPT !.pc = "count", !.queued = q]]
    /\ UNCHANGED <<filterVars, windowVars, webhookVars, envVars, reminderVars, campaigns,
                   campaign_calls, sharedVars>>

\* lines 78-102: the timezone, the window gate (on its own `new Date()`), the
\* query of the due QUEUED calls
CampaignGate(r) ==
    /\ cam[r].pc = "campaign"
    /\ LET c == campaignCurrent(r)
       IN  IF ~campaigns[c].timezone_valid
           THEN \* toLocaleDateString throws a RangeError: to the campaign's catch
                cam' = [cam EXCEPT ![r] =
                    campaignContinue([@ EXCEPT !.errs = @ \cup {<<"campaign", c>>}])]
           ELSE IF ~isWithinCallWindow(campaigns[c], wallClock(clock), w_hour24)
           THEN cam' = [cam EXCEPT ![r] =
                    campaignContinue([@ EXCEPT !.gated = @ \cup {c}])]
           ELSE \/ \* queueError
                   cam' = [cam EXCEPT ![r] =
                       campaignContinue([@ EXCEPT !.errs = @ \cup {<<"campaign", c>>}])]
                \/ \E q \in orderedByScheduledFor(dueQueuedCalls(c, cam[r].now)) :
                     cam' = [cam EXCEPT ![r] =
                         IF Len(q) = 0
                         THEN afterDispatchPhase(@)
                         ELSE [@ EXCEPT !.pc = "count", !.queued = q]]
    /\ UNCHANGED <<filterVars, windowVars, webhookVars, envVars, reminderVars, campaigns,
                   campaign_calls, sharedVars>>

\* lines 103-110: the IN_PROGRESS count of the campaign
CampaignCount(r) ==
    /\ cam[r].pc = "count"
    /\ cam' = [cam EXCEPT ![r] = [@ EXCEPT
           !.pc = "spacing", !.currentInProgress = inProgressCount(campaignCurrent(r)),
           !.counted = inProgressCount(campaignCurrent(r))]]
    /\ UNCHANGED <<filterVars, windowVars, webhookVars, envVars, reminderVars, campaigns,
                   campaign_calls, sharedVars>>

\* a spacing that holds back the dispatch phase alone
CampaignSpacing_evaluatesAnyway(r) ==
    /\ cam[r].pc = "spacing"
    /\ LET c == campaignCurrent(r)
           last == lastDispatchedStartedAt(c)
           minMsBetween ==
               NumOrDefault(campaigns[c].min_minutes_between_calls,
                            DefaultMinMinutesBetweenCalls) * MsPerMinute
       IN  cam' = [cam EXCEPT ![r] =
               IF ~Nullish(last) /\ cam[r].now - last.value < minMsBetween
               THEN afterDispatchPhase([@ EXCEPT !.spaced = @ \cup {c}])
               ELSE [@ EXCEPT !.pc = "call", !.qi = 1]]
    /\ UNCHANGED <<filterVars, windowVars, webhookVars, envVars, reminderVars, campaigns,
                   campaign_calls, sharedVars>>

\* lines 112-129: the minimum spacing since the last dispatch
CampaignSpacing(r) ==
    /\ cam[r].pc = "spacing"
    /\ LET c == campaignCurrent(r)
           last == lastDispatchedStartedAt(c)
           minMsBetween ==
               NumOrDefault(campaigns[c].min_minutes_between_calls,
                            DefaultMinMinutesBetweenCalls) * MsPerMinute
       IN  cam' = [cam EXCEPT ![r] =
               IF ~Nullish(last) /\ cam[r].now - last.value < minMsBetween
               THEN campaignContinue([@ EXCEPT !.spaced = @ \cup {c}])
               ELSE [@ EXCEPT !.pc = "call", !.qi = 1]]
    /\ UNCHANGED <<filterVars, windowVars, webhookVars, envVars, reminderVars, campaigns,
                   campaign_calls, sharedVars>>

\* lines 131-159: the concurrency cap, the phone check with its SKIPPED mark,
\* the atomic claim
\*   .update({status: 'IN_PROGRESS', started_at: now}).eq('id', id)
\*   .eq('status', 'QUEUED').select().single()
CampaignClaim(r) ==
    /\ cam[r].pc = "call"
    /\ LET c == campaignCurrent(r)
           k == callCurrent(r)
           phone == campaign_calls[k].phone
       IN  IF cam[r].currentInProgress >=
                  NumOrDefault(campaigns[c].max_concurrent_calls, DefaultMaxConcurrentCalls)
           THEN \* break
                /\ cam' = [cam EXCEPT ![r] = afterDispatchPhase(@)]
                /\ UNCHANGED <<campaign_calls, hist>>
           ELSE IF phoneMissing(phone) \/ ~matchesE164(phone.value)
           THEN \* .update({status: 'SKIPPED', skip_reason}).eq('status', 'QUEUED')
                /\ campaign_calls' =
                       IF campaign_calls[k].status = "QUEUED"
                       THEN [campaign_calls EXCEPT ![k].status = "SKIPPED",
                                ![k].skip_reason = Val("Invalid phone number")]
                       ELSE campaign_calls
                /\ cam' = [cam EXCEPT ![r] = callContinue(@)]
                /\ hist' = [hist EXCEPT ![k].examined = TRUE]
           ELSE \/ \* claimError other than zero rows: the update did not run
                   /\ cam' = [cam EXCEPT ![r] = callContinue(@)]
                   /\ UNCHANGED <<campaign_calls, hist>>
                \/ \* zero rows: already claimed
                   /\ ~claimable(campaign_calls[k], "QUEUED")
                   /\ cam' = [cam EXCEPT ![r] = callContinue(@)]
                   /\ hist' = [hist EXCEPT ![k].attempts = @ \cup {r}]
                   /\ UNCHANGED campaign_calls
                \/ \* one row: claimed
                   /\ claimable(campaign_calls[k], "QUEUED")
                   /\ campaign_calls' = [campaign_calls EXCEPT
                          ![k].status = "IN_PROGRESS",
                          ![k].started_at = Val(cam[r].now)]
                   /\ cam' = [cam EXCEPT ![r].pc = "dispatch"]
                   /\ hist' = [hist EXCEPT ![k].attempts = @ \cup {r},
                                           ![k].wins = @ \cup {r}]
    /\ UNCHANGED <<filterVars, windowVars, webhookVars, envVars, reminderVars, campaigns,
                   call_logs, placed>>

\* lines 161-220, 252-258: the template, then the Voice Provider when LiveKit is
\* configured (a call that raises places nothing), else the FAILED mark
CampaignDispatch(r) ==
    /\ cam[r].pc = "dispatch"
    /\ LET k == callCurrent(r)
       IN  IF livekitEnabled
           THEN \/ \* createDispatch or createSipParticipant raises: to the catch block
                   /\ cam' = [cam EXCEPT ![r] = [@ EXCEPT
                          !.pc = "revert", !.errs = @ \cup {k}]]
                   /\ UNCHANGED <<placed, campaign_calls>>
                \/ \* the call is placed
                   /\ placed[k] < MaxCalls
                   /\ placed' = [placed EXCEPT ![k] = @ + 1]
                   /\ cam' = [cam EXCEPT ![r] = [@ EXCEPT
                          !.pc = "log", !.dispatched = @ + 1]]
                   /\ UNCHANGED campaign_calls
           ELSE \* .update({status: 'FAILED', skip_reason}).eq('id', id)
                /\ campaign_calls' = [campaign_calls EXCEPT ![k].status = "FAILED",
                       ![k].skip_reason = Val("LiveKit not configured")]
                /\ cam' = [cam EXCEPT ![r] = callContinue(@)]
                /\ UNCHANGED placed
    /\ UNCHANGED <<filterVars, windowVars, webhookVars, envVars, reminderVars, campaigns,
                   call_logs, hist>>

\* a run that does not count the calls it places
CampaignLog_countsNothing(r) ==
    /\ cam[r].pc = "log"
    /\ LET k == callCurrent(r)
       IN  /\ call_logs' = [call_logs EXCEPT ![k] = @ + 1]
           /\ cam' = [cam EXCEPT ![r] = callContinue(@)]
    /\ UNCHANGED <<filterVars, windowVars, webhookVars, envVars, reminderVars, campaigns,
                   campaign_calls, placed, hist>>

\* lines 229-238: the CallLog row linked to the campaign call, currentInProgress++
CampaignLog(r) ==
    /\ cam[r].pc = "log"
    /\ LET k == callCurrent(r)
       IN  /\ call_logs' = [call_logs EXCEPT ![k] = @ + 1]
           /\ cam' = [cam EXCEPT ![r] =
                  callContinue([@ EXCEPT !.currentInProgress = @ + 1])]
    /\ UNCHANGED <<filterVars, windowVars, webhookVars, envVars, reminderVars, campaigns,
                   campaign_calls, placed, hist>>

\* a catch block that puts the status back and keeps started_at
CampaignRevert_keepsStartedAt(r) ==
    /\ cam[r].pc = "revert"
    /\ LET k == callCurrent(r)
       IN  /\ campaign_calls' = [campaign_calls EXCEPT ![k].status = "QUEUED"]
           /\ hist' = [hist EXCEPT ![k] = [@ EXCEPT
                  !.attempts = {}, !.wins = {}, !.reverted = TRUE]]
           /\ cam' = [cam EXCEPT ![r] = callContinue(@)]
    /\ UNCHANGED <<filterVars, windowVars, webhookVars, envVars, reminderVars, campaigns,
                   call_logs, placed>>

\* lines 244-251: the catch block
\*   .update({status: 'QUEUED', started_at: null}).eq('id', campaignCall.id)
CampaignRevert(r) ==
    /\ cam[r].pc = "revert"
    /\ LET k == callCurrent(r)
       IN  /\ campaign_calls' = [campaign_calls EXCEPT
                  ![k].status = "QUEUED", ![k].started_at = NULL]
           /\ hist' = [hist EXCEPT ![k] = [@ EXCEPT
                  !.attempts = {}, !.wins = {}, !.reverted = TRUE]]
           /\ cam' = [cam EXCEPT ![r] = callContinue(@)]
    /\ UNCHANGED <<filterVars, windowVars, webhookVars, envVars, reminderVars, campaigns,
                   call_logs, placed>>

CampaignNext ==
    \E r \in Replicas :
        \/ CampaignStart(r)
        \/ CampaignBusy(r)
        \/ CampaignGate(r)
        \/ CampaignCount(r)
        \/ CampaignSpacing(r)
        \/ CampaignClaim(r)
        \/ CampaignDispatch(r)
        \/ CampaignLog(r)
        \/ CampaignRevert(r)

(***************************************************************************)
(* schedulers/campaign.ts: the evaluation phase of runCampaignScheduler    *)
(***************************************************************************)

\* settings.days_since_last_appointment || 30 and campaign.cycle_frequency_days || 30
DefaultDaysSinceLastAppointment == 30
DefaultCycleFrequencyDays == 30

\* line 270: now - daysSinceLastAppointment * 24 * 60 * 60 * 1000
cutoffDate(campaign, now) ==
    now - NumOrDefault(campaign.days_since_last_appointment,
                       DefaultDaysSinceLastAppointment) * DayMs

\* lines 322, 379: (campaign.cycle_frequency_days || 30) * 24 * 60 * 60 * 1000
cycleMsOf(campaign) ==
    NumOrDefault(campaign.cycle_frequency_days, DefaultCycleFrequencyDays) * DayMs

\* lines 278-282: .eq('business_id', campaign.business_id).neq('phone', '')
customersOfBusiness(b) ==
    {u \in DOMAIN customers :
        /\ customers[u].business_id = b
        /\ ~Nullish(customers[u].phone)
        /\ customers[u].phone.value # <<>>}

\* lines 295-308: the customer's latest appointment with the business is
\* later than the cutoff
lastAptTooRecent(campaign, u, now) ==
    \E a \in DOMAIN appointments :
        /\ appointments[a].customer_id = u
        /\ appointments[a].business_id = campaign.business_id
        /\ appointments[a].scheduled_at > cutoffDate(campaign, now)

\* lines 311-317: the count of appointments from now on that are SCHEDULED or CONFIRMED
futureCount(campaign, u, now) ==
    Cardinality({a \in DOMAIN appointments :
        /\ appointments[a].customer_id = u
        /\ appointments[a].business_id = campaign.business_id
        /\ appointments[a].scheduled_at >= now
        /\ appointments[a].status \in {"SCHEDULED", "CONFIRMED"}})

\* lines 322-328: the count of the campaign's calls to the customer created
\* since the start of the cycle
recentCallCount(c, u, now) ==
    Cardinality({k \in DOMAIN campaign_calls :
        /\ campaign_calls[k].campaign_id = c
        /\ campaign_calls[k].customer_id = u
        /\ campaign_calls[k].created_at >= now - cycleMsOf(campaigns[c])})

\* a customer check that does not look at the calls of the cycle
isEligible_ignoresCycle(c, u, now) ==
    /\ matchesE164(customers[u].phone.value)
    /\ ~lastAptTooRecent(campaigns[c], u, now)
    /\ ~(futureCount(campaigns[c], u, now) > 0)
\* lines 291-333: the body of the customer loop, up to eligibleCustomers.push
isEligible(c, u, now) ==
    /\ matchesE164(customers[u].phone.value)
    /\ ~lastAptTooRecent(campaigns[c], u, now)
    /\ ~(futureCount(campaigns[c], u, now) > 0)
    /\ ~(recentCallCount(c, u, now) > 0)

\* the server's local midnight of the day of an instant; the server's wall
\* clock is the businesses' one
startOfDay(t) ==
    t - ((OriginMinutes + (t \div MsPerMinute)) % 1440) * MsPerMinute

Max(a, b) == IF a >= b THEN a ELSE b

\* lines 339-363: scheduled_for of the i-th (from 0) of n eligible customers;
\* NULL for the Invalid Date that a window of duration 0 gives (0 / 0 and
\* 0 % 0 are NaN, i / 0 is Infinity)
scheduledDate(campaign, now, i, n) ==
    LET windowStartMin == parseTimeToMinutes(
            OrDefault(campaign.call_window_start, DefaultWindowStart))
        windowEndMin == parseTimeToMinutes(
            OrDefault(campaign.call_window_end, DefaultWindowEnd))
        windowDurationMin == windowEndMin - windowStartMin
        intervalMin == Max(
            NumOrDefault(campaign.min_minutes_between_calls,
                         DefaultMinMinutesBetweenCalls),
            windowDurationMin \div Max(n, 1))
        offsetMinutes == windowStartMin + (i * intervalMin)
        tomorrow == now + DayMs
    IN  IF windowDurationMin = 0
        THEN NULL
        ELSE LET dayOffset == (offsetMinutes - windowStartMin) \div windowDurationMin
                 minuteInWindow ==
                     windowStartMin + ((offsetMinutes - windowStartMin) % windowDurationMin)
             IN  Val(startOfDay(tomorrow + dayOffset * DayMs)
                         + minuteInWindow * MsPerMinute)

\* the customer loop is over: to the inserts when someone is eligible, else
\* to the update of the run times
afterCustomerLoop(s) ==
    IF Len(s.eligibleCustomers) > 0
    THEN [s EXCEPT !.pc = "insert", !.ei = 1]
    ELSE [s EXCEPT !.pc = "runtimes"]

\* lines 264-289: the campaign type and the customers of the business (rows
\* in any order); on custError the `continue` of the campaign loop
EvalCustomers(r) ==
    /\ cam[r].pc = "evaluate"
    /\ LET c == campaignCurrent(r)
       IN  IF campaigns[c].campaign_type # "RE_ENGAGEMENT"
           THEN cam' = [cam EXCEPT ![r].pc = "runtimes"]
           ELSE \/ \* custError || !customers
                   cam' = [cam EXCEPT ![r] =
                       campaignContinue([@ EXCEPT !.errs = @ \cup {<<"campaign", c>>}])]
                \/ \E q \in SeqOfSet(customersOfBusiness(campaigns[c].business_id)) :
                     cam' = [cam EXCEPT ![r] =
                         IF Len(q) = 0
                         THEN afterCustomerLoop(@)
                         ELSE [@ EXCEPT !.pc = "customer", !.customers = q, !.cu = 1]]
    /\ UNCHANGED <<filterVars, windowVars, webhookVars, envVars, reminderVars, campaigns,
                   campaign_calls, sharedVars>>

\* lines 291-333: one customer: the phone, the latest appointment, the future
\* appointments, the calls of the cycle.  The two appointment reads come with
\* the read of the calls: no step of the campaign loop writes an appointment.
EvalCustomer(r) ==
    /\ cam[r].pc = "customer"
    /\ LET c == campaignCurrent(r)
           u == cam[r].customers[cam[r].cu]
           t == IF isEligible(c, u, cam[r].now)
                THEN [cam[r] EXCEPT !.eligibleCustomers = Append(@, u)]
                ELSE cam[r]
       IN  cam' = [cam EXCEPT ![r] =
               IF t.cu < Len(t.customers)
               THEN [t EXCEPT !.cu = @ + 1]
               ELSE afterCustomerLoop(t)]
    /\ UNCHANGED <<filterVars, windowVars, webhookVars, envVars, reminderVars, campaigns,
                   campaign_calls, sharedVars>>

\* the id the database gives the next b2b_campaign_calls row
newCallId == <<"call", Cardinality(DOMAIN campaign_calls) + 1>>

\* lines 351-372: one insert; toISOString of an Invalid Date throws a
\* RangeError, which the campaign's catch logs
EvalInsert(r) ==
    /\ cam[r].pc = "insert"
    /\ LET c == campaignCurrent(r)
           u == cam[r].eligibleCustomers[cam[r].ei]
           d == scheduledDate(campaigns[c], cam[r].now, cam[r].ei - 1,
                              Len(cam[r].eligibleCustomers))
       IN  IF Nullish(d)
           THEN /\ cam' = [cam EXCEPT ![r] =
                       campaignContinue([@ EXCEPT !.errs = @ \cup {<<"campaign", c>>}])]
                /\ UNCHANGED campaign_calls
           ELSE /\ campaign_calls' =
                       [k \in DOMAIN campaign_calls \cup {newCallId} |->
                           IF k \in DOMAIN campaign_calls
                           THEN campaign_calls[k]
                           ELSE [campaign_id |-> c, status |-> "QUEUED",
                                 scheduled_for |-> d.value, started_at |-> NULL,
                                 skip_reason |-> NULL, phone |-> customers[u].phone,
                                 customer_id |-> u, created_at |-> clock]]
                /\ cam' = [cam EXCEPT ![r] =
                       IF @.ei < Len(@.eligibleCustomers)
                       THEN [@ EXCEPT !.ei = @ + 1,
                                      !.inserted = @ \cup {newCallId}]
                       ELSE [@ EXCEPT !.pc = "runtimes",
                                      !.inserted = @ \cup {newCallId}]]
    /\ UNCHANGED <<filterVars, windowVars, webhookVars, envVars, reminderVars, campaigns, sharedVars>>

\* lines 378-386: .update({last_run_at: now, next_run_at: now + cycle}).eq('id', id)
EvalRunTimes(r) ==
    /\ cam[r].pc = "runtimes"
    /\ LET c == campaignCurrent(r)
       IN  /\ campaigns' = [campaigns EXCEPT
                  ![c].last_run_at = Val(cam[r].now),
                  ![c].next_run_at = Val(cam[r].now + cycleMsOf(campaigns[c]))]
           /\ cam' = [cam EXCEPT ![r] = campaignContinue(@)]
    /\ UNCHANGED <<filterVars, windowVars, webhookVars, envVars, reminderVars, campaign_calls,
                   sharedVars>>

EvalNext ==
    \E r \in Replicas :
        \/ EvalCustomers(r)
        \/ EvalCustomer(r)
        \/ EvalInsert(r)
        \/ EvalRunTimes(r)

(***************************************************************************)
(* schedulers/campaign.ts: the staggering of the evaluation phase, for one *)
(* campaign, one `now` and one number of eligible customers                *)
(***************************************************************************)

MaxEligible == 3
\* the columns of the campaign that the staggering reads, and allowed_days
StaggerCampaigns ==
    [allowed_days : {NULL, Val(<<"SUN", "MON", "TUE", "WED", "THU", "FRI", "SAT">>)},
     call_window_start : {NULL, Val(<<8, 0>>)},
     call_window_end : {NULL, Val(<<9, 10>>)},
     min_minutes_between_calls : {NULL, Val(0), Val(1), Val(10)}]
\* minutes from the server's local time to the business's: the same zone, or
\* a server on UTC and the default zone of a business, America/Los_Angeles
StaggerOffsets == {0, 0 - 8 * 60}
\* Monday 09:00 and Friday 09:00 on the server
StaggerNows == {0, 4 * DayMs}

StaggerIdle ==
    /\ s_campaign = [allowed_days |-> NULL, call_window_start |-> NULL,
                     call_window_end |-> NULL, min_minutes_between_calls |-> NULL]
    /\ s_offset = 0
    /\ s_now = 0
    /\ s_n = 0
    /\ s_called = FALSE
    /\ s_result = <<>>

StaggerInit ==
    /\ s_campaign \in StaggerCampaigns
    /\ s_offset \in StaggerOffsets
    /\ s_now \in StaggerNows
    /\ s_n \in 1..MaxEligible
    /\ s_called = FALSE
    /\ s_result = <<>>

\* lines 350-371: the loop over eligibleCustomers, without its inserts
StaggerCall ==
    /\ ~s_called
    /\ s_called' = TRUE
    /\ s_result' = [i \in 1..s_n |-> scheduledDate(s_campaign, s_now, i - 1, s_n)]
    /\ UNCHANGED <<s_campaign, s_offset, s_now, s_n, filterVars, windowVars, loopVars,
                   callVars, sessionVars, callbackVars>>

(***************************************************************************)
(* routes/appointments.ts: the manual trigger and the agent's status update *)
(***************************************************************************)

\* POST /api/appointments/:id/trigger-call, lines 51-218.  404 and 400 leave
\* the database alone.  With LiveKit the call goes out through it and, when that
\* raises, through Telnyx; when Telnyx raises too the handler fails with
\* nothing written.  After either dial:
\*   .update({status: 'REMINDED'}).eq('id', id), then the CallLog row.
TriggerCall(a) ==
    /\ a \in DOMAIN appointments
    /\ LET phone == appointments[a].phone
       IN  IF phoneMissing(phone) \/ ~matchesE164(phone.value)
           THEN UNCHANGED <<appointments, placed, call_logs>>
           ELSE \/ \* the dial raised on every provider tried
                   UNCHANGED <<appointments, placed, call_logs>>
                \/ \* the call is placed, by LiveKit or by Telnyx
                   /\ placed[a] < MaxCalls
                   /\ placed' = [placed EXCEPT ![a] = @ + 1]
                   /\ appointments' = [appointments EXCEPT ![a].status = "REMINDED"]
                   /\ call_logs' = [call_logs EXCEPT ![a] = @ + 1]
    /\ UNCHANGED <<filterVars, windowVars, webhookVars, envVars, rem, campaignVars, hist>>

\* PATCH /api/appointments/:id/status, lines 221-271
validStatuses ==
    {"SCHEDULED", "CONFIRMED", "RESCHEDULED", "CANCELED", "COMPLETED", "NO_SHOW"}
\* the outcomes the agent reports in the model
AgentStatuses == {"CONFIRMED", "CANCELED"}

\* the agent of a placed call reports the outcome:
\*   .update({status: status.toUpperCase(), updated_at}).eq('id', id)
UpdateStatus(a, status) ==
    /\ a \in DOMAIN appointments
    /\ placed[a] > 0
    /\ status \in validStatuses
    /\ appointments' = [appointments EXCEPT ![a].status = status]
    /\ UNCHANGED <<filterVars, windowVars, webhookVars, envVars, rem, campaignVars, sharedVars>>

\* routes/campaign-callbacks.ts: POST /api/campaign-calls/:id/result, for the
\* id of a row and whatever its status:
\*   .update({status: 'COMPLETED', completed_at, result_data}).eq('id', id)
\* A report for a call that is COMPLETED already leaves the status as it is.
CampaignCallResult(k) ==
    /\ k \in DOMAIN campaign_calls
    /\ campaign_calls[k].status # "COMPLETED"
    /\ campaign_calls' = [campaign_calls EXCEPT ![k].status = "COMPLETED"]
    /\ UNCHANGED <<filterVars, windowVars, webhookVars, envVars, reminderVars, campaigns,
                   cam, sharedVars>>

CallbacksNext == \E k \in DOMAIN campaign_calls : CampaignCallResult(k)

RoutesNext ==
    \E a \in AppointmentIds :
        \/ TriggerCall(a)
        \/ \E status \in AgentStatuses : UpdateStatus(a, status)

(***************************************************************************)
(* routes/webhooks.ts: POST /api/webhooks/telnyx/call-events, for one call *)
(* that the reminder loop has placed on the basic path                     *)
(***************************************************************************)

\* the events the Voice Provider sends about one call, the hangup excepted
MaxEvents == 7
\* duration_secs of the hangup event
Durations == {0, 42}
\* payload.digits of call.gather.ended; none or "" on a timeout
GatherDigits == {Val(<<"1">>), Val(<<"2">>), Val(<<"9">>), Val(<<>>), UNDEFINED}
\* payload.result of call.machine.detection.ended
DetectionResults == {"machine", "human"}

\* req.body: event_type and the fields of the payload the handler reads
\* with the headers the provider signs it with, at the time it sends it
Event(type) ==
    [event_type |-> type, digits |-> UNDEFINED, result |-> UNDEFINED,
     duration_secs |-> UNDEFINED, signature |-> Val("valid"),
     timestamp |-> Val(clock \div 1000), sender |-> "telnyx"]

\* the X-Appointment-Id header the call was dialled with
appointmentId == <<"apt", 1>>

\* the call leg: its state, the speeches not yet played to the end, whether
\* digits are being collected, whether the answering-machine detection has
\* reported, the events sent, every command received
TelnyxIdle ==
    [state |-> "none", speeches |-> <<>>, gathering |-> FALSE,
     detection |-> FALSE, emitted |-> 0, commands |-> <<>>]
NoCallLog == [call_outcome |-> NULL, duration_sec |-> NULL]

\* telnyx.calls.actions.speak(callControlId, {payload, ...})
speak(call, payload) ==
    [call EXCEPT !.commands = Append(@, payload),
                 !.speeches = IF call.state = "active" THEN Append(@, payload) ELSE @]

\* telnyx.calls.actions.gather(callControlId, {minimum_digits: 1, ...})
gather(call) ==
    [call EXCEPT !.commands = Append(@, "gather"),
                 !.gathering = (call.state = "active")]

\* what no step of the call touches
beyondCall ==
    <<filterVars, windowVars, envVars, rem, campaignVars, sharedVars, sessionVars,
      callbackVars, staggerVars>>

\* ---- the Voice Provider sends an event
TelnyxInitiated ==
    /\ tel_call.state = "dialed"
    /\ tel_call' = [tel_call EXCEPT !.state = "ringing", !.emitted = @ + 1]
    /\ webhooks' = Append(webhooks, Event("call.initiated"))
    /\ UNCHANGED <<timers, call_log, handled, appointments, beyondCall>>

TelnyxAnswered ==
    /\ tel_call.state = "ringing"
    /\ tel_call.emitted < MaxEvents
    /\ tel_call' = [tel_call EXCEPT !.state = "active", !.emitted = @ + 1]
    /\ webhooks' = Append(webhooks, Event("call.answered"))
    /\ UNCHANGED <<timers, call_log, handled, appointments, beyondCall>>

TelnyxMachineDetectionEnded(result) ==
    /\ tel_call.state = "active"
    /\ ~tel_call.detection
    /\ tel_call.emitted < MaxEvents
    /\ tel_call' = [tel_call EXCEPT !.detection = TRUE, !.emitted = @ + 1]
    /\ webhooks' = Append(webhooks,
           [Event("call.machine.detection.ended") EXCEPT !.result = Val(result)])
    /\ UNCHANGED <<timers, call_log, handled, appointments, beyondCall>>

TelnyxSpeakEnded ==
    /\ tel_call.state = "active"
    /\ tel_call.speeches # <<>>
    /\ tel_call.emitted < MaxEvents
    /\ tel_call' = [tel_call EXCEPT !.speeches = Tail(@), !.emitted = @ + 1]
    /\ webhooks' = Append(webhooks, Event("call.speak.ended"))
    /\ UNCHANGED <<timers, call_log, handled, appointments, beyondCall>>

TelnyxGatherEnded(digits) ==
    /\ tel_call.state = "active"
    /\ tel_call.gathering
    /\ tel_call.emitted < MaxEvents
    /\ tel_call' = [tel_call EXCEPT !.gathering = FALSE, !.emitted = @ + 1]
    /\ webhooks' = Append(webhooks,
           [Event("call.gather.ended") EXCEPT !.digits = digits])
    /\ UNCHANGED <<timers, call_log, handled, appointments, beyondCall>>

\* the leg ends: nobody answered, or the callee hung up
ended(call) ==
    [call EXCEPT !.state = "ended", !.speeches = <<>>, !.gathering = FALSE]

TelnyxHangup(duration) ==
    /\ tel_call.state \in {"ringing", "active"}
    /\ tel_call' = ended(tel_call)
    /\ webhooks' = Append(webhooks,
           [Event("call.hangup") EXCEPT !.duration_secs = Val(duration)])
    /\ UNCHANGED <<timers, call_log, handled, appointments, beyondCall>>

\* ---- middleware/validation.ts: validateTelnyxWebhook

MaxForged == 1
NaN == [kind |-> "NaN"]
\* the headers of a request that is not the provider's: a signature that does
\* not verify with a timestamp of now, of the future or that is not a number;
\* no signature; a signed request of the provider sent again later
ForgedHeaders ==
    {[signature |-> Val("invalid"), timestamp |-> Val(0)],
     [signature |-> Val("invalid"), timestamp |-> Val(301)],
     [signature |-> Val("invalid"), timestamp |-> NaN],
     [signature |-> UNDEFINED, timestamp |-> Val(0)],
     [signature |-> Val("valid"), timestamp |-> Val(-301)]}

\* Math.abs(Date.now() - parseInt(timestamp) * 1000)
timestampAge(now, timestamp) ==
    IF timestamp = NaN
    THEN NaN
    ELSE LET d == now - timestamp.value * 1000
         IN  Val(IF d < 0 THEN -d ELSE d)

\* TRUE when the middleware calls next(), FALSE when it answers 401
validateTelnyxWebhook(secret, now, req) ==
    IF ~secret
    THEN TRUE
    ELSE IF Nullish(req.signature) \/ Nullish(req.timestamp)
    THEN FALSE
    ELSE LET age == timestampAge(now, req.timestamp)
         IN  ~(age # NaN /\ age.value > 5 * 60 * 1000)

\* a request to the webhook that the provider did not send
ForgedEvent(headers) ==
    /\ Cardinality({i \in DOMAIN webhooks : webhooks[i].sender # "telnyx"})
         + Cardinality({i \in DOMAIN handled : handled[i].sender # "telnyx"})
           < MaxForged
    /\ webhooks' = Append(webhooks,
           [Event("call.gather.ended") EXCEPT !.digits = Val(<<"1">>),
                                              !.signature = headers.signature,
                                              !.timestamp = headers.timestamp,
                                              !.sender = "other"])
    /\ UNCHANGED <<tel_call, timers, call_log, handled, appointments, beyondCall>>

\* res.status(401): the handler is not run
WebhookRejected ==
    /\ webhooks # <<>>
    /\ ~validateTelnyxWebhook(config.telnyxWebhookSecret, clock, Head(webhooks))
    /\ webhooks' = Tail(webhooks)
    /\ UNCHANGED <<tel_call, timers, call_log, handled, appointments, beyondCall>>

\* ---- the webhook answers an event: switch (eventType)
received(type) ==
    /\ webhooks # <<>>
    /\ validateTelnyxWebhook(config.telnyxWebhookSecret, clock, Head(webhooks))
    /\ Head(webhooks).event_type = type

\* res.json({received: true})
respond ==
    /\ webhooks' = Tail(webhooks)
    /\ handled' = Append(handled, Head(webhooks))

\* case 'call.initiated'
CallInitiated ==
    /\ received("call.initiated")
    /\ respond
    /\ UNCHANGED <<tel_call, timers, call_log, appointments, beyondCall>>

\* case 'call.answered': the log, then the reminder speech
CallAnswered ==
    /\ received("call.answered")
    /\ call_log' = [call_log EXCEPT !.call_outcome = Val("ANSWERED")]
    /\ tel_call' = speak(tel_call, "reminder")
    /\ respond
    /\ UNCHANGED <<timers, appointments, beyondCall>>

\* case 'call.speak.ended': whatever speech has ended
CallSpeakEnded ==
    /\ received("call.speak.ended")
    /\ tel_call' = gather(tel_call)
    /\ respond
    /\ UNCHANGED <<timers, call_log, appointments, beyondCall>>

\* case 'call.gather.ended' with the appointment left alone on "1" and "2"
CallGatherEnded_logOnly ==
    /\ received("call.gather.ended")
    /\ LET digits == Head(webhooks).digits
       IN  IF digits = Val(<<"1">>)
           THEN /\ tel_call' = speak(tel_call, "confirmed")
                /\ UNCHANGED appointments
                /\ call_log' = [call_log EXCEPT !.call_outcome = Val("CONFIRMED")]
           ELSE IF digits = Val(<<"2">>)
           THEN /\ tel_call' = speak(tel_call, "reschedule")
                /\ UNCHANGED appointments
                /\ call_log' = [call_log EXCEPT !.call_outcome = Val("RESCHEDULED")]
           ELSE /\ tel_call' = speak(tel_call, "goodbye")
                /\ UNCHANGED <<appointments, call_log>>
    /\ timers' = timers + 1
    /\ respond
    /\ UNCHANGED beyondCall

\* case 'call.gather.ended' with the hangup left out of the last branch
CallGatherEnded_noHangupInElse ==
    /\ received("call.gather.ended")
    /\ LET digits == Head(webhooks).digits
       IN  IF digits = Val(<<"1">>)
           THEN /\ tel_call' = speak(tel_call, "confirmed")
                /\ appointments' = [appointments EXCEPT ![appointmentId].status = "CONFIRMED"]
                /\ call_log' = [call_log EXCEPT !.call_outcome = Val("CONFIRMED")]
                /\ timers' = timers + 1
           ELSE IF digits = Val(<<"2">>)
           THEN /\ tel_call' = speak(tel_call, "reschedule")
                /\ appointments' = [appointments EXCEPT ![appointmentId].status = "RESCHEDULED"]
                /\ call_log' = [call_log EXCEPT !.call_outcome = Val("RESCHEDULED")]
                /\ timers' = timers + 1
           ELSE /\ tel_call' = speak(tel_call, "goodbye")
                /\ UNCHANGED <<appointments, call_log, timers>>
    /\ respond
    /\ UNCHANGED beyondCall

\* case 'call.gather.ended': the speech of the branch, the two updates of
\* "1" and "2", then setTimeout(hangup, 5000)
CallGatherEnded ==
    /\ received("call.gather.ended")
    /\ LET digits == Head(webhooks).digits
       IN  IF digits = Val(<<"1">>)
           THEN /\ tel_call' = speak(tel_call, "confirmed")
                /\ appointments' = [appointments EXCEPT ![appointmentId].status = "CONFIRMED"]
                /\ call_log' = [call_log EXCEPT !.call_outcome = Val("CONFIRMED")]
           ELSE IF digits = Val(<<"2">>)
           THEN /\ tel_call' = speak(tel_call, "reschedule")
                /\ appointments' = [appointments EXCEPT ![appointmentId].status = "RESCHEDULED"]
                /\ call_log' = [call_log EXCEPT !.call_outcome = Val("RESCHEDULED")]
           ELSE /\ tel_call' = speak(tel_call, "goodbye")
                /\ UNCHANGED <<appointments, call_log>>
    /\ timers' = timers + 1
    /\ respond
    /\ UNCHANGED beyondCall

\* case 'call.hangup' (the first of the labels of that name): the duration
CallHangup ==
    /\ received("call.hangup")
    /\ call_log' = [call_log EXCEPT !.duration_sec = Head(webhooks).duration_secs]
    /\ respond
    /\ UNCHANGED <<tel_call, timers, appointments, beyondCall>>

\* case 'call.machine.detection.ended'
CallMachineDetectionEnded ==
    /\ received("call.machine.detection.ended")
    /\ IF Head(webhooks).result = Val("machine")
       THEN /\ call_log' = [call_log EXCEPT !.call_outcome = Val("VOICEMAIL")]
            /\ tel_call' = speak(tel_call, "voicemail")
       ELSE UNCHANGED <<call_log, tel_call>>
    /\ respond
    /\ UNCHANGED <<timers, appointments, beyondCall>>

\* the callback of setTimeout: telnyx.calls.actions.hangup in a try; on a
\* leg that has ended the command is refused and the catch logs it
HangupTimer ==
    /\ timers > 0
    /\ timers' = timers - 1
    /\ IF tel_call.state \in {"ringing", "active"}
       THEN \E duration \in Durations :
              /\ tel_call' = [ended(tel_call) EXCEPT !.commands = Append(@, "hangup")]
              /\ webhooks' = Append(webhooks,
                     [Event("call.hangup") EXCEPT !.duration_secs = Val(duration)])
       ELSE /\ tel_call' = [tel_call EXCEPT !.commands = Append(@, "hangup")]
            /\ UNCHANGED webhooks
    /\ UNCHANGED <<call_log, handled, appointments, beyondCall>>

CallNext ==
    \/ TelnyxInitiated
    \/ TelnyxAnswered
    \/ \E result \in DetectionResults : TelnyxMachineDetectionEnded(result)
    \/ TelnyxSpeakEnded
    \/ \E digits \in GatherDigits : TelnyxGatherEnded(digits)
    \/ \E duration \in Durations : TelnyxHangup(duration)
    \/ CallInitiated
    \/ CallAnswered
    \/ CallSpeakEnded
    \/ CallGatherEnded
    \/ CallHangup
    \/ CallMachineDetectionEnded
    \/ HangupTimer

\* the call, and the requests of others to the webhook
WebhookNext ==
    \/ CallNext
    \/ \E headers \in ForgedHeaders : ForgedEvent(headers)
    \/ WebhookRejected

\* before any call: no leg, no event, no timer
CallIdle ==
    /\ tel_call = TelnyxIdle
    /\ webhooks = <<>>
    /\ timers = 0
    /\ call_log = NoCallLog
    /\ handled = <<>>

\* the reminder loop has claimed the appointment, dialled and inserted the
\* row of the call
CallInit ==
    /\ tel_call = [TelnyxIdle EXCEPT !.state = "dialed"]
    /\ webhooks = <<>>
    /\ timers = 0
    /\ call_log = NoCallLog
    /\ handled = <<>>
    /\ clock = 0
    /\ livekitEnabled = FALSE
    /\ customers = <<>>
    /\ appointments = [a \in {appointmentId} |->
           [status |-> "REMINDED", scheduled_at |-> 1 * MsPerMinute, created_at |-> 0,
            reminder_minutes_before |-> Val(1), phone |-> Val(<<"+", "1", "5">>),
            customer_id |-> 0, business_id |-> 1]]
    /\ campaigns = <<>>
    /\ campaign_calls = <<>>
    /\ call_logs = [a \in {appointmentId} |-> 1]
    /\ placed = [a \in {appointmentId} |-> 1]
    /\ rem = [r \in Replicas |-> ReminderIdle]
    /\ cam = [r \in Replicas |-> CampaignIdle]
    /\ hist = [a \in {appointmentId} |-> NoHist]

(***************************************************************************)
(* routes/ai-call.ts, services/gemini-session.ts, websocket/media-stream.ts *)
(* : the calls of the AI path and the map of their sessions                *)
(***************************************************************************)

MaxAiCalls == 2
\* callControlId of the calls POST /api/ai-call dials
Handles == 1..MaxAiCalls

\* per handle: the call leg; where the handler of call.answered and the
\* handler of call.hangup stand; the Gemini Live session; the media stream
\* socket and where its close callback stands; whether a fallback speech
\* plays; the commands the Voice Provider was sent for the call; the earlier
\* live sessions of the handle that are still open and that a later
\* geminiSessions.set has replaced in the map
AiIdle ==
    [call |-> "none", answered |-> "idle", hangup |-> "idle", live |-> "none",
     stream |-> "none", wsclose |-> "idle", speaking |-> FALSE, commands |-> {},
     orphans |-> 0]
\* the answered events sent again are as many as leave MaxOrphans sessions behind
MaxOrphans == 1

\* what no step of the AI path touches
beyondAi ==
    <<filterVars, windowVars, loopVars, callVars, callbackVars, staggerVars>>

\* POST /api/ai-call: telnyx.calls.dial with the ai-call webhook
AiDial(h) ==
    /\ ai[h].call = "none"
    /\ ai' = [ai EXCEPT ![h].call = "ringing"]
    /\ UNCHANGED <<geminiSessions, beyondAi>>

\* the callee hangs up, or nobody answers
AiCallEnds(h) ==
    /\ ai[h].call \in {"ringing", "active"}
    /\ ai' = [ai EXCEPT ![h].call = "ended", ![h].speaking = FALSE]
    /\ UNCHANGED <<geminiSessions, beyondAi>>

\* case 'call.answered', up to `await createGeminiLiveSession(...)`, which
\* runs up to `await googleAI.live.connect(...)`
AiAnswered(h) ==
    /\ ai[h].call = "ringing"
    /\ ai[h].answered = "idle"
    /\ ai' = [ai EXCEPT ![h].call = "active", ![h].answered = "connect"]
    /\ UNCHANGED <<geminiSessions, beyondAi>>

\* case 'call.answered' for an event the Voice Provider delivers again after
\* the handler of the first has returned: the handler keeps no record of the
\* calls it has answered and runs as for the first
AiAnsweredAgain(h) ==
    /\ ai[h].call = "active"
    /\ ai[h].answered = "done"
    /\ ai[h].orphans < MaxOrphans
    /\ ai' = [ai EXCEPT ![h].answered = "connect"]
    /\ UNCHANGED <<geminiSessions, beyondAi>>

\* telnyx.calls.actions.speak: heard on a leg that is up
fallbackSpeech(a, payload) ==
    [a EXCEPT !.speaking = (a.call = "active"), !.commands = @ \cup {payload}]

\* connect resolves: geminiSessions.set(callControlId, session), which puts
\* the new session in the place of an earlier one of the handle; or it
\* rejects: the catch returns null and the handler falls back to a speech
AiConnect(h) ==
    /\ ai[h].answered = "connect"
    /\ \/ /\ geminiSessions' = geminiSessions \cup {h}
          /\ ai' = [ai EXCEPT ![h].live = "open", ![h].answered = "stream",
                              ![h].orphans = IF ai[h].live \in {"open", "closing"}
                                             THEN @ + 1 ELSE @]
       \/ /\ ai' = [ai EXCEPT ![h] =
                 fallbackSpeech([@ EXCEPT !.answered = "done"], "speak.apology")]
          /\ UNCHANGED geminiSessions
    /\ UNCHANGED beyondAi

\* streamingStart and the greeting; when either throws, the fallback speech
AiStream(h) ==
    /\ ai[h].answered = "stream"
    /\ \/ /\ ai[h].call = "active"
          /\ ai[h].live = "open"
          /\ ai' = [ai EXCEPT ![h].stream = "open", ![h].answered = "done",
                              ![h].commands = @ \cup {"streamingStart"}]
       \/ ai' = [ai EXCEPT ![h] =
              fallbackSpeech([@ EXCEPT !.answered = "done"], "speak.greeting")]
    /\ UNCHANGED <<geminiSessions, beyondAi>>

\* case 'call.speak.ended': without a session of the call, hang up
AiSpeakEnded(h) ==
    /\ ai[h].speaking
    /\ ai[h].call = "active"
    /\ ai' = [ai EXCEPT ![h] =
           IF h \in geminiSessions
           THEN [@ EXCEPT !.speaking = FALSE]
           ELSE [@ EXCEPT !.speaking = FALSE, !.call = "ended",
                          !.commands = @ \cup {"hangup"}]]
    /\ UNCHANGED <<geminiSessions, beyondAi>>

\* closeGeminiSession up to its await: geminiSessions.get, and with a session
\* liveSession.close()
closing(a) == [a EXCEPT !.live = IF @ = "open" THEN "closing" ELSE @]

\* case 'call.hangup': closeGeminiSession(callControlId), first part
AiHangup(h) ==
    /\ ai[h].call = "ended"
    /\ ai[h].hangup = "idle"
    /\ ai' = [ai EXCEPT ![h] =
           IF h \in geminiSessions
           THEN closing([@ EXCEPT !.hangup = "close"])
           ELSE [@ EXCEPT !.hangup = "done"]]
    /\ UNCHANGED <<geminiSessions, beyondAi>>

\* ... after the await: geminiSessions.delete(callControlId)
AiHangupDelete(h) ==
    /\ ai[h].hangup = "close"
    /\ geminiSessions' = geminiSessions \ {h}
    /\ ai' = [ai EXCEPT ![h].hangup = "done"]
    /\ UNCHANGED beyondAi

\* the onclose callback of the live session, closed by close() or by the
\* Conversation Service
GeminiOnClose(h) ==
    /\ ai[h].live \in {"open", "closing"}
    /\ geminiSessions' = geminiSessions \ {h}
    /\ ai' = [ai EXCEPT ![h].live = "closed"]
    /\ UNCHANGED beyondAi

\* the onclose callback of an earlier session of the handle, closed by the
\* Conversation Service: geminiSessions.delete(callControlId)
GeminiOnCloseEarlier(h) ==
    /\ ai[h].orphans > 0
    /\ geminiSessions' = geminiSessions \ {h}
    /\ ai' = [ai EXCEPT ![h].orphans = @ - 1]
    /\ UNCHANGED beyondAi

\* ws.on('close'): telnyxStreams.delete, then closeGeminiSession, not awaited
WsClose(h) ==
    /\ ai[h].stream = "open"
    /\ ai' = [ai EXCEPT ![h] =
           IF h \in geminiSessions
           THEN closing([@ EXCEPT !.stream = "closed", !.wsclose = "close"])
           ELSE [@ EXCEPT !.stream = "closed", !.wsclose = "done"]]
    /\ UNCHANGED <<geminiSessions, beyondAi>>

WsCloseDelete(h) ==
    /\ ai[h].wsclose = "close"
    /\ geminiSessions' = geminiSessions \ {h}
    /\ ai' = [ai EXCEPT ![h].wsclose = "done"]
    /\ UNCHANGED beyondAi

\* a step of the call of handle h with every event delivered once
aiStep(h) ==
    \/ AiDial(h)
    \/ AiCallEnds(h)
    \/ AiAnswered(h)
    \/ AiConnect(h)
    \/ AiStream(h)
    \/ AiSpeakEnded(h)
    \/ AiHangup(h)
    \/ AiHangupDelete(h)
    \/ GeminiOnClose(h)
    \/ WsClose(h)
    \/ WsCloseDelete(h)

AiNext == \E h \in Handles : aiStep(h)

\* one call whose answered event the Voice Provider delivers again
AiNextRedelivered ==
    \/ aiStep(1)
    \/ AiAnsweredAgain(1)
    \/ GeminiOnCloseEarlier(1)

\* server start-up: no session, no call
SessionIdle ==
    /\ geminiSessions = {}
    /\ ai = [h \in Handles |-> AiIdle]

(***************************************************************************)
(* routes/calls.ts: POST /api/calls/:id/transcript, and                    *)
(* services/transcript-analysis.ts: analyzeTranscriptWithGemini            *)
(***************************************************************************)

MaxLogRows == 1
LogIds == 1..MaxLogRows

VALID_CALL_OUTCOMES ==
    {"ANSWERED", "CONFIRMED", "RESCHEDULED", "CANCELED", "VOICEMAIL", "NO_ANSWER",
     "FAILED"}
\* 001_create_tables_and_rls.sql: CHECK (call_outcome IN (...))
CheckedCallOutcomes ==
    {"ANSWERED", "NO_ANSWER", "VOICEMAIL", "BUSY", "FAILED", "CONFIRMED",
     "RESCHEDULED", "CANCELED"}

\* String.prototype.toUpperCase on the strings of the model
toUpperCase(str) ==
    CASE str = "confirmed" -> "CONFIRMED"
      [] str = "busy" -> "BUSY"
      [] str = "interested" -> "INTERESTED"
      [] OTHER -> str

\* req.body.call_outcome as the agent sends it
ReportedOutcomes ==
    {UNDEFINED, Val(""), Val("confirmed"), Val("RESCHEDULED"), Val("busy"),
     Val("interested")}
\* req.body.transcript: none, one conversation message, a conversation
Transcripts == {"none", "short", "conversation"}
\* what generateContent gives: it throws, an empty text, an object without
\* call_outcome, an object with a call_outcome
GeminiResponses ==
    {[kind |-> "throws"], [kind |-> "empty"], [kind |-> "missing"]}
        \cup {[kind |-> "parsed", call_outcome |-> o] :
                 o \in {"CONFIRMED", "VOICEMAIL", "NO_ANSWER", "BOOKED"}}

\* analyzeTranscriptWithGemini: the call_outcome of the result, or null
analyzeTranscriptWithGemini(googleAI, transcript, response) ==
    IF ~googleAI THEN NULL
    ELSE IF transcript # "conversation" THEN NULL
    ELSE IF response.kind # "parsed" THEN NULL
    ELSE IF response.call_outcome \notin VALID_CALL_OUTCOMES THEN NULL
    ELSE Val(response.call_outcome)

\* geminiResult?.call_outcome || (call_outcome ? call_outcome.toUpperCase() : null)
finalOutcome(geminiResult, call_outcome) ==
    IF ~Nullish(geminiResult)
    THEN geminiResult
    ELSE IF ~Nullish(call_outcome) /\ call_outcome.value # ""
    THEN Val(toUpperCase(call_outcome.value))
    ELSE NULL

TranscriptIdle ==
    [pc |-> "idle", call_outcome |-> UNDEFINED, transcript |-> "none",
     geminiResult |-> NULL, saved |-> FALSE]

beyondCallbacks ==
    <<filterVars, windowVars, loopVars, callVars, sessionVars, staggerVars>>

\* the request arrives; the handler awaits analyzeTranscriptWithGemini
TranscriptPost(id, call_outcome, transcript) ==
    /\ transcript_reqs[id].pc = "idle"
    /\ transcript_reqs' = [transcript_reqs EXCEPT ![id] =
           [TranscriptIdle EXCEPT !.pc = "analyze", !.call_outcome = call_outcome,
                                  !.transcript = transcript]]
    /\ UNCHANGED <<config, log_rows, create_reqs, toggle_reqs, beyondCallbacks>>

\* the analysis returns
TranscriptAnalyzed(id, response) ==
    /\ transcript_reqs[id].pc = "analyze"
    /\ transcript_reqs' = [transcript_reqs EXCEPT ![id] =
           [@ EXCEPT !.pc = "save",
                     !.geminiResult = analyzeTranscriptWithGemini(
                         config.googleAI, transcript_reqs[id].transcript, response)]]
    /\ UNCHANGED <<config, log_rows, create_reqs, toggle_reqs, beyondCallbacks>>

\* .update(updateData).eq('id', id): call_outcome is written when
\* finalOutcome is truthy, and the CHECK of the column refuses the whole
\* update for a value it does not list
TranscriptSave(id) ==
    /\ transcript_reqs[id].pc = "save"
    /\ LET req == transcript_reqs[id]
           outcome == finalOutcome(req.geminiResult, req.call_outcome)
       IN  IF Nullish(outcome)
           THEN /\ UNCHANGED log_rows
                /\ transcript_reqs' = [transcript_reqs EXCEPT ![id] =
                       [@ EXCEPT !.pc = "idle", !.saved = TRUE]]
           ELSE IF outcome.value \in CheckedCallOutcomes
           THEN /\ log_rows' = [log_rows EXCEPT ![id].call_outcome = outcome]
                /\ transcript_reqs' = [transcript_reqs EXCEPT ![id] =
                       [@ EXCEPT !.pc = "idle", !.saved = TRUE]]
           ELSE /\ UNCHANGED log_rows
                /\ transcript_reqs' = [transcript_reqs EXCEPT ![id] =
                       [@ EXCEPT !.pc = "idle", !.saved = FALSE]]
    /\ UNCHANGED <<config, create_reqs, toggle_reqs, beyondCallbacks>>

TranscriptNext ==
    \E id \in LogIds :
        \/ \E call_outcome \in ReportedOutcomes, transcript \in Transcripts :
               TranscriptPost(id, call_outcome, transcript)
        \/ \E response \in GeminiResponses : TranscriptAnalyzed(id, response)
        \/ TranscriptSave(id)

\* every secret and key set, no row, no request
ConfigSet == [telnyxWebhookSecret |-> TRUE, googleAI |-> TRUE]
CallbackIdle ==
    /\ config = ConfigSet
    /\ log_rows = <<>>
    /\ transcript_reqs = <<>>
    /\ create_reqs = <<>>
    /\ toggle_reqs = <<>>

\* the rows of calls the agent is on, with no outcome yet
TranscriptInit ==
    /\ config \in [telnyxWebhookSecret : {TRUE}, googleAI : BOOLEAN]
    /\ log_rows = [id \in LogIds |-> [call_outcome |-> NULL]]
    /\ transcript_reqs = [id \in LogIds |-> TranscriptIdle]
    /\ create_reqs = <<>>
    /\ toggle_reqs = <<>>

(***************************************************************************)
(* routes/campaigns.ts: POST /api/campaigns, and the b2b_campaigns table   *)
(***************************************************************************)

MaxCreateReqs == 2
CreateReqs == 1..MaxCreateReqs

validTypes == {"RE_ENGAGEMENT", "REVIEW_COLLECTION", "NO_SHOW_FOLLOWUP"}
\* req.user?.business_id, req.body.campaign_type, req.body.name
CreateBusinesses == {UNDEFINED, Val(1), Val(2)}
CreateTypes == {UNDEFINED, Val("RE_ENGAGEMENT"), Val("REVIEW_COLLECTION"), Val("BIRTHDAY")}
CreateNames == {UNDEFINED, Val(""), Val("Spring")}

CreateIdle ==
    [pc |-> "idle", businessId |-> UNDEFINED, campaign_type |-> UNDEFINED, status |-> 0]

\* the rows of b2b_campaigns with this business and this type
rowsOfPair(rows, businessId, campaign_type) ==
    {i \in DOMAIN rows : /\ rows[i].business_id = businessId
                         /\ rows[i].campaign_type = campaign_type}

\* a table with no constraint on the pair
uniqueViolation_none(rows, businessId, campaign_type) == FALSE
\* UNIQUE(business_id, campaign_type): the insert of a second row is refused
uniqueViolation(rows, businessId, campaign_type) ==
    rowsOfPair(rows, businessId, campaign_type) # {}

\* the checks of the body, up to the await of the query for an existing row
CreatePost(r, businessId, campaign_type, name) ==
    /\ create_reqs[r].pc = "idle"
    /\ create_reqs[r].status = 0
    /\ LET rejected ==
               \/ Nullish(businessId)
               \/ Nullish(campaign_type)
               \/ campaign_type.value \notin validTypes
               \/ Nullish(name)
               \/ name.value = ""
       IN  create_reqs' = [create_reqs EXCEPT ![r] =
               IF rejected
               THEN [CreateIdle EXCEPT !.status = 400]
               ELSE [pc |-> "check", businessId |-> businessId,
                     campaign_type |-> campaign_type, status |-> 0]]
    /\ UNCHANGED <<config, log_rows, transcript_reqs, toggle_reqs, beyondCallbacks>>

\* const { data: existing } = ....single(): the row, or null when there is
\* none or when the query fails; 409 when there is one
CreateCheck(r, queryFails) ==
    /\ create_reqs[r].pc = "check"
    /\ LET req == create_reqs[r]
           existing ==
               /\ ~queryFails
               /\ rowsOfPair(campaigns, req.businessId.value, req.campaign_type.value) # {}
       IN  create_reqs' = [create_reqs EXCEPT ![r] =
               IF existing
               THEN [@ EXCEPT !.pc = "idle", !.status = 409]
               ELSE [@ EXCEPT !.pc = "insert"]]
    /\ UNCHANGED <<config, log_rows, transcript_reqs, toggle_reqs, beyondCallbacks>>

\* .insert({...}).select().single(): 201 with the row, or the error thrown
CreateInsert(r) ==
    /\ create_reqs[r].pc = "insert"
    /\ LET req == create_reqs[r]
       IN  IF uniqueViolation(campaigns, req.businessId.value, req.campaign_type.value)
           THEN /\ create_reqs' = [create_reqs EXCEPT ![r] =
                       [@ EXCEPT !.pc = "idle", !.status = 500]]
                /\ UNCHANGED campaigns
           ELSE /\ create_reqs' = [create_reqs EXCEPT ![r] =
                       [@ EXCEPT !.pc = "idle", !.status = 201]]
                /\ campaigns' = Append(campaigns,
                       [business_id |-> req.businessId.value,
                        campaign_type |-> req.campaign_type.value,
                        enabled |-> FALSE, next_run_at |-> NULL])
    /\ UNCHANGED <<config, log_rows, transcript_reqs, toggle_reqs, filterVars, windowVars,
                   envVars, appointments, campaign_calls, call_logs, placed, rem,
                   cam, hist, callVars, sessionVars, staggerVars>>

CreateNext ==
    \E r \in CreateReqs :
        \/ \E businessId \in CreateBusinesses, campaign_type \in CreateTypes,
              name \in CreateNames :
               CreatePost(r, businessId, campaign_type, name)
        \/ \E queryFails \in BOOLEAN : CreateCheck(r, queryFails)
        \/ CreateInsert(r)

\* no campaign yet, no request under way
CreateInit ==
    /\ config = ConfigSet
    /\ log_rows = <<>>
    /\ transcript_reqs = <<>>
    /\ create_reqs = [r \in CreateReqs |-> CreateIdle]
    /\ toggle_reqs = <<>>

(***************************************************************************)
(* routes/campaigns.ts: POST /api/campaigns/:id/toggle and                 *)
(* PATCH /api/campaigns/:id                                                *)
(***************************************************************************)

MaxToggleReqs == 2
ToggleReqs == 1..MaxToggleReqs
\* cycle_frequency_days in the body of a PATCH
PatchedCycles == {Val(1), Val(2)}

ToggleIdle == [pc |-> "idle", id |-> 0, newEnabled |-> FALSE]

\* what neither route touches
beyondToggle ==
    <<filterVars, windowVars, callVars, sessionVars, staggerVars, config, log_rows,
      transcript_reqs, create_reqs, envVars, reminderVars, campaign_calls, cam,
      sharedVars>>

\* the toggle, up to the await of its update: .select('enabled').eq('id', id)
\* and newEnabled = !campaign.enabled; 404 without the row or on fetchError
TogglePost(r, id, fetchFails) ==
    /\ toggle_reqs[r].pc = "idle"
    /\ toggle_reqs' = [toggle_reqs EXCEPT ![r] =
           IF fetchFails \/ id \notin DOMAIN campaigns
           THEN ToggleIdle
           ELSE [pc |-> "update", id |-> id, newEnabled |-> ~campaigns[id].enabled]]
    /\ UNCHANGED <<campaigns, beyondToggle>>

\* an update that enables without a run time
ToggleUpdate_enabledOnly(r) ==
    /\ toggle_reqs[r].pc = "update"
    /\ campaigns' = [campaigns EXCEPT
           ![toggle_reqs[r].id].enabled = toggle_reqs[r].newEnabled]
    /\ toggle_reqs' = [toggle_reqs EXCEPT ![r] = ToggleIdle]
    /\ UNCHANGED beyondToggle

\* .update({enabled: newEnabled, next_run_at: now when enabling}).eq('id', id),
\* or the error thrown with nothing written
ToggleUpdate(r) ==
    /\ toggle_reqs[r].pc = "update"
    /\ LET req == toggle_reqs[r]
       IN  \/ UNCHANGED campaigns
           \/ campaigns' = [campaigns EXCEPT
                  ![req.id].enabled = req.newEnabled,
                  ![req.id].next_run_at = IF req.newEnabled THEN Val(clock) ELSE @]
    /\ toggle_reqs' = [toggle_reqs EXCEPT ![r] = ToggleIdle]
    /\ UNCHANGED beyondToggle

\* PATCH /api/campaigns/:id: the allowed fields of the body, of which the
\* model takes cycle_frequency_days; enabled and next_run_at are not among them
PatchCampaign(id, cycle_frequency_days) ==
    /\ id \in DOMAIN campaigns
    /\ campaigns[id].cycle_frequency_days # cycle_frequency_days
    /\ campaigns' = [campaigns EXCEPT ![id].cycle_frequency_days = cycle_frequency_days]
    /\ UNCHANGED <<toggle_reqs, beyondToggle>>

ToggleNext ==
    \/ \E r \in ToggleReqs :
          \/ \E id \in CampaignIds, fetchFails \in BOOLEAN : TogglePost(r, id, fetchFails)
          \/ ToggleUpdate(r)
    \/ \E id \in CampaignIds, cycle \in PatchedCycles : PatchCampaign(id, cycle)

\* ---- the database at the start: freshly booked appointments
AppointmentRows ==
    [status : {"SCHEDULED"},
     scheduled_at : {1 * MsPerMinute, 2 * MsPerMinute},
     created_at : {0},
     reminder_minutes_before : {Val(1)},
     phone : Phones,
     customer_id : {0},
     business_id : {1}]

\* ---- and the campaigns with their queued calls; next_run_at lies one cycle
\* (cycle_frequency_days = 1) ahead, as the evaluation phase leaves it
CycleMs == 1 * DayMs
CampaignBase ==
    [enabled |-> TRUE, timezone_valid |-> TRUE, allowed_days |-> NULL,
     call_window_start |-> NULL, call_window_end |-> NULL,
     max_concurrent_calls |-> NULL, min_minutes_between_calls |-> Val(1),
     next_run_at |-> Val(CycleMs), last_run_at |-> NULL,
     campaign_type |-> "RE_ENGAGEMENT", business_id |-> 1,
     days_since_last_appointment |-> Val(1), cycle_frequency_days |-> Val(1)]
\* campaigns out of service: disabled, or of a business whose timezone the
\* runtime rejects
CampaignRowsOut ==
    {[CampaignBase EXCEPT !.enabled = FALSE],
     [CampaignBase EXCEPT !.timezone_valid = FALSE]}
\* campaigns in service: the defaults, or one call at a time until 09:00
CampaignRowsIn ==
    {CampaignBase,
     [CampaignBase EXCEPT !.max_concurrent_calls = Val(1),
                          !.call_window_end = Val(<<9, 0>>)]}
\* call i is scheduled for minute i - 1
CampaignCallRows(i) ==
    [campaign_id : CampaignIds,
     status : {"QUEUED"},
     scheduled_for : {(i - 1) * MsPerMinute},
     started_at : {NULL},
     skip_reason : {NULL},
     phone : Phones,
     customer_id : {0},
     created_at : {0}]

\* ---- the database at the start of SpecEval: campaigns whose evaluation is
\* due, customers, their appointments and their earlier calls
MaxCustomers == 2
ValidPhone == Val(<<"+", "1", "5">>)
CampaignRowsEval ==
    {[CampaignBase EXCEPT !.next_run_at = Val(0)],
     [CampaignBase EXCEPT !.next_run_at = Val(0), !.call_window_end = Val(<<9, 0>>)],
     [CampaignBase EXCEPT !.next_run_at = Val(0), !.campaign_type = "REVIEW_COLLECTION"],
     [CampaignBase EXCEPT !.next_run_at = NULL]}
\* what the database holds about one customer: the row, at most one
\* appointment, at most one earlier call of the campaign in service
NoRow == [kind |-> "none"]
AppointmentOf(scheduled_at, status) ==
    [kind |-> "row", scheduled_at |-> scheduled_at, status |-> status]
CallOf(status, created_at) ==
    [kind |-> "row", status |-> status, created_at |-> created_at]
Situation(phone, business_id, apt, call) ==
    [phone |-> phone, business_id |-> business_id, apt |-> apt, call |-> call]
\* the first customer: never contacted; called one cycle ago to the
\* millisecond; with a call still queued; with a malformed phone; of another business
SituationsFirst ==
    {Situation(ValidPhone, 1, NoRow, NoRow),
     Situation(ValidPhone, 1, NoRow, CallOf("COMPLETED", 0 - DayMs)),
     Situation(ValidPhone, 1, NoRow, CallOf("QUEUED", 0 - DayMs)),
     Situation(Val(<<"0", "1", "5">>), 1, NoRow, NoRow),
     Situation(ValidPhone, 2, NoRow, NoRow)}
\* the other customers: never seen; last seen exactly at the cutoff; seen
\* two minutes after it; with an appointment tomorrow
SituationsOther ==
    {Situation(ValidPhone, 1, NoRow, NoRow),
     Situation(ValidPhone, 1, AppointmentOf(0 - DayMs, "COMPLETED"), NoRow),
     Situation(ValidPhone, 1, AppointmentOf(2 * MsPerMinute - DayMs, "COMPLETED"), NoRow),
     Situation(ValidPhone, 1, AppointmentOf(DayMs, "SCHEDULED"), NoRow)}

EvalInit ==
    /\ clock = 0
    /\ livekitEnabled = TRUE
    /\ campaigns \in {c \in [CampaignIds -> CampaignRowsOut \cup CampaignRowsEval] :
                         \A i \in CampaignIds :
                             c[i] \in CampaignRowsEval <=> i = MaxCampaigns}
    /\ \E n \in 1..MaxCustomers :
        \E sit \in [1..n -> SituationsFirst \cup SituationsOther] :
          /\ \A u \in 1..n : sit[u] \in SituationsFirst <=> u = 1
          /\ customers = [u \in 1..n |->
                 [phone |-> sit[u].phone, business_id |-> sit[u].business_id]]
          /\ appointments =
                 [a \in {<<"apt", u>> : u \in {v \in 1..n : sit[v].apt # NoRow}} |->
                     [status |-> sit[a[2]].apt.status,
                      scheduled_at |-> sit[a[2]].apt.scheduled_at,
                      created_at |-> sit[a[2]].apt.scheduled_at - DayMs,
                      reminder_minutes_before |-> NULL,
                      phone |-> sit[a[2]].phone,
                      customer_id |-> a[2],
                      business_id |-> sit[a[2]].business_id]]
          /\ campaign_calls =
                 [k \in {<<"call", u>> : u \in {v \in {1} : sit[v].call # NoRow}} |->
                     [campaign_id |-> MaxCampaigns,
                      status |-> sit[k[2]].call.status,
                      scheduled_for |-> 0,
                      started_at |-> IF sit[k[2]].call.status = "QUEUED"
                                     THEN NULL ELSE Val(sit[k[2]].call.created_at),
                      skip_reason |-> NULL,
                      phone |-> sit[k[2]].phone,
                      customer_id |-> k[2],
                      created_at |-> sit[k[2]].call.created_at]]
          \* a call still queued comes with no other customer and with the
          \* other campaigns disabled
          /\ (\E k \in DOMAIN campaign_calls : campaign_calls[k].status = "QUEUED")
                 => /\ n = 1
                    /\ \A i \in CampaignIds : campaigns[i].enabled <=> i = MaxCampaigns
    /\ call_logs = [a \in DOMAIN campaign_calls |-> 0]
    /\ placed = [a \in DOMAIN campaign_calls |-> 0]
    /\ rem = [r \in Replicas |-> ReminderIdle]
    /\ cam = [r \in Replicas |-> CampaignIdle]
    /\ hist = [a \in DOMAIN campaign_calls |-> NoHist]

\* One campaign as POST /api/campaigns leaves it, disabled and with no run
\* time, and one customer to call; the other id is the id of no row
ToggleInit ==
    /\ clock = 0
    /\ livekitEnabled = TRUE
    /\ campaigns = [i \in {MaxCampaigns} |->
                       [CampaignBase EXCEPT !.enabled = FALSE, !.next_run_at = NULL]]
    /\ customers = <<[phone |-> ValidPhone, business_id |-> 1]>>
    /\ appointments = <<>>
    /\ campaign_calls = <<>>
    /\ call_logs = <<>>
    /\ placed = <<>>
    /\ rem = [r \in Replicas |-> ReminderIdle]
    /\ cam = [r \in Replicas |-> CampaignIdle]
    /\ hist = <<>>
    /\ config = ConfigSet
    /\ log_rows = <<>>
    /\ transcript_reqs = <<>>
    /\ create_reqs = <<>>
    /\ toggle_reqs = [r \in ToggleReqs |-> ToggleIdle]

LoopIdle ==
    /\ clock = 0
    /\ livekitEnabled = FALSE
    /\ customers = <<>>
    /\ appointments = <<>>
    /\ campaigns = <<>>
    /\ campaign_calls = <<>>
    /\ call_logs = <<>>
    /\ placed = <<>>
    /\ rem = [r \in Replicas |-> ReminderIdle]
    /\ cam = [r \in Replicas |-> CampaignIdle]
    /\ hist = <<>>

\* The two loops share no row, so the database holds the work of one of them:
\* up to MaxItems appointments and no campaign, or the campaigns (the last one
\* in service, the others out of service) with up to MaxItems queued calls.
LoopInit ==
    /\ clock = 0
    /\ livekitEnabled \in BOOLEAN
    /\ customers = <<>>
    /\ \/ /\ \E n \in 1..MaxItems :
                appointments \in [{<<"apt", i>> : i \in 1..n} -> AppointmentRows]
          /\ campaigns = <<>>
          /\ campaign_calls = <<>>
       \/ /\ appointments = <<>>
          /\ campaigns \in {c \in [CampaignIds -> CampaignRowsOut \cup CampaignRowsIn] :
                               \A i \in CampaignIds :
                                   c[i] \in CampaignRowsIn <=> i = MaxCampaigns}
          /\ \E m \in 1..MaxItems :
                campaign_calls \in
                    {k \in [{<<"call", i>> : i \in 1..m} ->
                               UNION {CampaignCallRows(i) : i \in 1..m}] :
                        \A i \in 1..m : k[<<"call", i>>] \in CampaignCallRows(i)}
    /\ call_logs = [a \in DOMAIN appointments \cup DOMAIN campaign_calls |-> 0]
    /\ placed = [a \in DOMAIN appointments \cup DOMAIN campaign_calls |-> 0]
    /\ rem = [r \in Replicas |-> ReminderIdle]
    /\ cam = [r \in Replicas |-> CampaignIdle]
    /\ hist = [a \in DOMAIN appointments \cup DOMAIN campaign_calls |-> NoHist]

\* The reminder loop on one appointment: freshly booked, or due an hour ago
\* and still SCHEDULED, as an outage of the Voice Provider or of the server
\* leaves it
RemindInit ==
    /\ clock = 0
    /\ livekitEnabled \in BOOLEAN
    /\ customers = <<>>
    /\ appointments \in
           [{<<"apt", 1>>} ->
               AppointmentRows \cup
               {[status |-> "SCHEDULED", scheduled_at |-> 0 - HourMs,
                 created_at |-> 0 - 2 * HourMs, reminder_minutes_before |-> Val(1),
                 phone |-> ValidPhone, customer_id |-> 0, business_id |-> 1]}]
    /\ campaigns = <<>>
    /\ campaign_calls = <<>>
    /\ call_logs = [a \in DOMAIN appointments |-> 0]
    /\ placed = [a \in DOMAIN appointments |-> 0]
    /\ rem = [r \in Replicas |-> ReminderIdle]
    /\ cam = [r \in Replicas |-> CampaignIdle]
    /\ hist = [a \in DOMAIN appointments |-> NoHist]

\* The dispatch phase on one campaign that allows one call at a time, any
\* time of the day, with MaxItems calls queued and due at the start
CapInit ==
    /\ clock = 0
    /\ livekitEnabled \in BOOLEAN
    /\ customers = <<>>
    /\ appointments = <<>>
    /\ campaigns = [i \in CampaignIds |->
                       IF i = MaxCampaigns
                       THEN [CampaignBase EXCEPT !.max_concurrent_calls = Val(1)]
                       ELSE [CampaignBase EXCEPT !.enabled = FALSE]]
    /\ campaign_calls = [k \in CallIds |->
                            [campaign_id |-> MaxCampaigns, status |-> "QUEUED",
                             scheduled_for |-> 0, started_at |-> NULL,
                             skip_reason |-> NULL, phone |-> ValidPhone,
                             customer_id |-> 0, created_at |-> 0]]
    /\ call_logs = [a \in DOMAIN campaign_calls |-> 0]
    /\ placed = [a \in DOMAIN campaign_calls |-> 0]
    /\ rem = [r \in Replicas |-> ReminderIdle]
    /\ cam = [r \in Replicas |-> CampaignIdle]
    /\ hist = [a \in DOMAIN campaign_calls |-> NoHist]

\* The reminder loop on appointments booked two days ago with a lead of 25
\* hours, due one day and one day and a minute after the start: the reminder
\* time of each has passed, and the second one is still outside the query.
ScanInit ==
    /\ clock = 0
    /\ livekitEnabled \in BOOLEAN
    /\ customers = <<>>
    /\ \E n \in 1..MaxItems :
          appointments \in
              [{<<"apt", i>> : i \in 1..n} ->
                  [status : {"SCHEDULED"},
                   scheduled_at : {DayMs, DayMs + MsPerMinute},
                   created_at : {0 - 2 * DayMs},
                   reminder_minutes_before : {Val(25 * 60)},
                   phone : {ValidPhone},
                   customer_id : {0},
                   business_id : {1}]]
    /\ campaigns = <<>>
    /\ campaign_calls = <<>>
    /\ call_logs = [a \in DOMAIN appointments |-> 0]
    /\ placed = [a \in DOMAIN appointments |-> 0]
    /\ rem = [r \in Replicas |-> ReminderIdle]
    /\ cam = [r \in Replicas |-> CampaignIdle]
    /\ hist = [a \in DOMAIN appointments |-> NoHist]

(***************************************************************************)
(* Properties of the two loops                                             *)
(***************************************************************************)

\* replica r is past the claim of item i and has not finished with it
reminderHolds(r, i) ==
    /\ rem[r].pc \in {"dispatch", "log", "revert"}
    /\ reminderCurrent(r) = i
campaignHolds(r, i) ==
    /\ cam[r].pc \in {"dispatch", "log", "revert"}
    /\ callCurrent(r) = i
holds(r, i) == reminderHolds(r, i) \/ campaignHolds(r, i)

\* C1: of the replicas whose claim has run on an item since it was last
\* claimable, exactly one took the row; every other one saw zero rows and
\* went on: it is not dispatching, logging or reverting the item, and its run
\* has logged no error for it.
C1_ExactlyOneClaim ==
    \A i \in DOMAIN hist :
        /\ hist[i].attempts # {} => Cardinality(hist[i].wins) = 1
        /\ \A r \in hist[i].attempts \ hist[i].wins :
               /\ ~holds(r, i)
               /\ i \notin rem[r].errs \cup cam[r].errs
\* every replica has run its claim on one item; one of them took the row and
\* is still dispatching it
C1_Witness ==
    /\ \E i \in DOMAIN hist :
          /\ hist[i].attempts = Replicas
          /\ Cardinality(hist[i].wins) = 1
          /\ \E r \in hist[i].wins : holds(r, i)

\* C2: the Voice Provider places at most one call for one appointment and at
\* most one call for one campaign call, whatever the interleaving of the
\* replicas' runs, reverts included.
C2_AtMostOneCall ==
    \A i \in DOMAIN placed : placed[i] <= 1
\* a dispatch has failed and been reverted, and a later run has placed the call
C2_Witness ==
    \E i \in DOMAIN placed : hist[i].reverted /\ placed[i] = 1

ItemPcs == {"call", "dispatch", "log", "revert"}

StatedE164(p) ==
    \E plus \in {<<>>, <<"+">>} :
        \E n \in 2..15 :
            /\ Len(p) = Len(plus) + n
            /\ SubSeq(p, 1, Len(plus)) = plus
            /\ p[Len(plus) + 1] \in {"1", "2", "3", "4", "5", "6", "7", "8", "9"}
            /\ \A j \in (Len(plus) + 2)..Len(p) : p[j] \in Digits
StatedInvalidPhone(k) ==
    \/ campaign_calls[k].phone = NULL
    \/ ~StatedE164(campaign_calls[k].phone.value)

C6_ClaimOnly ==
    [][/\ \A a \in DOMAIN appointments :
            appointments[a].status # "REMINDED" /\ appointments'[a].status = "REMINDED"
                => appointments[a].status = "SCHEDULED"
       /\ \A k \in DOMAIN campaign_calls :
            campaign_calls[k].status # "IN_PROGRESS"
                /\ campaign_calls'[k].status = "IN_PROGRESS"
                => campaign_calls[k].status = "QUEUED"]_vars

\* C11: the step of a run that finds a campaign outside its call window
\* goes straight to the next campaign of the batch, or ends the run, and
\* writes nothing: no campaign call is claimed, marked or inserted, no call is
\* placed or logged, the campaign's run times stay, due or not.
C11_GateFramesWork ==
    [][\A r \in Replicas :
          (/\ cam[r].pc = "campaign"
           /\ cam'[r] # cam[r]
           /\ campaigns[campaignCurrent(r)].timezone_valid
           /\ ~isWithinCallWindow(campaigns[campaignCurrent(r)], wallClock(clock),
                                   w_hour24))
          => /\ UNCHANGED <<campaigns, campaign_calls, placed, call_logs>>
             /\ \/ cam'[r].pc = "idle"
                \/ /\ cam'[r].pc = "campaign"
                   /\ cam'[r].ci = cam[r].ci + 1]_vars
\* a run has found outside its window a campaign whose evaluation was due,
\* and has gone on; the campaign has never been evaluated
C11_Witness ==
    \E r \in Replicas, c \in CampaignIds :
        /\ c \in cam[r].gated
        /\ ~Nullish(cam[r].next_run_at[c])
        /\ cam[r].next_run_at[c].value <= cam[r].now
        /\ campaigns[c].last_run_at = NULL

\* the positions of a run inside the evaluation phase of a campaign
EvalPcs == {"evaluate", "customer", "insert", "runtimes"}
\* the step of replica r that ends its evaluation of a campaign
evalEnds(r) ==
    /\ cam[r].pc \in EvalPcs
    /\ cam'[r].pc \notin EvalPcs

\* the step of replica r that runs the first statement of the evaluation
\* phase of a campaign
evalRuns(r) ==
    /\ cam[r].pc = "evaluate"
    /\ cam'[r] # cam[r]

\* C12: a run enters the evaluation phase of a campaign only with the
\* campaign's next_run_at <= now, and never less than one cycle after an
\* evaluation of the campaign that recorded last_run_at.
C12_OncePerCycle ==
    [][\A r \in Replicas :
          evalRuns(r) =>
              LET c == campaignCurrent(r)
              IN  /\ ~Nullish(cam[r].next_run_at[c])
                  /\ cam[r].next_run_at[c].value <= cam[r].now
                  /\ \/ Nullish(campaigns[c].last_run_at)
                     \/ cam[r].now >= campaigns[c].last_run_at.value
                                          + cycleMsOf(campaigns[c])]_vars

\* C14: when a run ends its evaluation of a campaign it has inserted as many
\* campaign calls as it found eligible customers: one per eligible customer,
\* with status QUEUED, and none for anyone else.
C14_OneCallPerEligible ==
    [][\A r \in Replicas :
          evalEnds(r) =>
              LET c == campaignCurrent(r)
                  eligible == Range(cam[r].eligibleCustomers)
                  rows == cam[r].inserted
              IN  /\ Cardinality(rows) = Len(cam[r].eligibleCustomers)
                  /\ \A k \in rows :
                        /\ campaign_calls[k].campaign_id = c
                        /\ campaign_calls[k].status = "QUEUED"
                        /\ campaign_calls[k].customer_id \in eligible
                  /\ \A u \in eligible :
                        Cardinality({k \in rows :
                            campaign_calls[k].customer_id = u}) = 1]_vars

\* the re-engagement rule as stated: a valid phone; the most recent
\* appointment with the business, if any, not after the cutoff; no appointment
\* from now on that is SCHEDULED or CONFIRMED; no call of the campaign to the
\* customer created within the last cycle
StatedEligible(c, u, now) ==
    LET apts == {a \in DOMAIN appointments :
                    /\ appointments[a].customer_id = u
                    /\ appointments[a].business_id = campaigns[c].business_id}
        latest == {a \in apts :
                    \A b \in apts : appointments[b].scheduled_at
                                        <= appointments[a].scheduled_at}
    IN  /\ StatedE164(customers[u].phone.value)
        /\ \A a \in latest :
              appointments[a].scheduled_at <= cutoffDate(campaigns[c], now)
        /\ ~\E a \in apts :
              /\ appointments[a].scheduled_at >= now
              /\ appointments[a].status \in {"SCHEDULED", "CONFIRMED"}
        /\ ~\E k \in DOMAIN campaign_calls :
              /\ campaign_calls[k].campaign_id = c
              /\ campaign_calls[k].customer_id = u
              /\ campaign_calls[k].created_at >= now - cycleMsOf(campaigns[c])

C13_RunTimesAlwaysSet ==
    [][\A r \in Replicas :
          evalEnds(r) =>
              LET c == campaignCurrent(r)
              IN  /\ campaigns'[c].last_run_at = Val(cam[r].now)
                  /\ campaigns'[c].next_run_at =
                         Val(cam[r].now + cycleMsOf(campaigns[c]))]_vars

(***************************************************************************)
(* Properties of the call-events webhook                                   *)
(***************************************************************************)

eventTypes == [i \in DOMAIN handled |-> handled[i].event_type]
BasicPath ==
    <<"call.initiated", "call.answered", "call.speak.ended", "call.gather.ended",
      "call.hangup">>
\* the webhook has answered call.machine.detection.ended with result machine
machineDetected ==
    \E i \in DOMAIN handled :
        /\ handled[i].event_type = "call.machine.detection.ended"
        /\ handled[i].result = Val("machine")
gatherHandled ==
    \E i \in DOMAIN handled : handled[i].event_type = "call.gather.ended"

C17_HangupOutcome ==
    [][(received("call.hangup") /\ handled' = Append(handled, Head(webhooks)))
          => /\ call_log'.duration_sec = Head(webhooks).duration_secs
             /\ call_log.call_outcome \notin
                    {Val("CONFIRMED"), Val("RESCHEDULED"), Val("VOICEMAIL")}
                  => call_log'.call_outcome = Val("NO_ANSWER")]_vars

\* C18: once the webhook has answered a detected machine, the outcome is
\* VOICEMAIL, the voicemail message has been sent to the call, and no gather
\* command follows that message.
C18_NoGatherOnVoicemail ==
    machineDetected =>
        /\ call_log.call_outcome = Val("VOICEMAIL")
        /\ \E j \in DOMAIN tel_call.commands :
              /\ tel_call.commands[j] = "voicemail"
              /\ \A k \in DOMAIN tel_call.commands :
                    k > j => tel_call.commands[k] # "gather"

C20_NoSessionAfterHangup ==
    \A h \in Handles : ai[h].hangup = "done" => h \notin geminiSessions

\* C21: a call whose session could not be created on answer goes on as a
\* call of the basic path: it has no entry in the session map, and the server
\* collects digits after the speech, it does not hang the call up.
C21_FallbackToBasicPath ==
    \A h \in Handles :
        "speak.apology" \in ai[h].commands
            => /\ h \notin geminiSessions
               /\ "hangup" \notin ai[h].commands

(***************************************************************************)
(* Properties of the staggering                                            *)
(***************************************************************************)

\* the window and the spacing of the campaign as the specification states
\* them, with the column defaults (09:00 to 17:00, 5 minutes, Monday to Friday)
staggerStart ==
    IF s_campaign.call_window_start = NULL THEN 9 * 60
    ELSE s_campaign.call_window_start.value[1] * 60
         + s_campaign.call_window_start.value[2]
staggerEnd ==
    IF s_campaign.call_window_end = NULL THEN 17 * 60
    ELSE s_campaign.call_window_end.value[1] * 60 + s_campaign.call_window_end.value[2]
staggerDuration == staggerEnd - staggerStart
staggerSpacing ==
    IF s_campaign.min_minutes_between_calls = NULL THEN 5
    ELSE s_campaign.min_minutes_between_calls.value
staggerAllowedDays ==
    IF s_campaign.allowed_days = NULL THEN {"MON", "TUE", "WED", "THU", "FRI"}
    ELSE {s_campaign.allowed_days.value[i] : i \in DOMAIN s_campaign.allowed_days.value}
\* minutes since Monday 00:00 of the first week, on the server's clock and
\* on the business's
serverMinutes(t) == OriginMinutes + (t \div MsPerMinute)
businessMinutes(t) == serverMinutes(t) + s_offset

\* C27: when n times the minimum spacing fits in the window, the n
\* scheduled_for values are on one day of the business, at minutes of the day
\* inside the call window, and any two of them are at least the minimum
\* spacing apart.
C27_StaggerInsideWindow ==
    (s_called /\ s_n * staggerSpacing <= staggerDuration)
        => \A i \in 1..s_n :
               /\ ~Nullish(s_result[i])
               /\ businessMinutes(s_result[i].value) \div 1440
                      = businessMinutes(s_result[1].value) \div 1440
               /\ businessMinutes(s_result[i].value) % 1440 >= staggerStart
               /\ businessMinutes(s_result[i].value) % 1440 <= staggerEnd
               /\ \A j \in 1..s_n :
                      j > i => s_result[j].value - s_result[i].value
                                   >= staggerSpacing * MsPerMinute

\* C28: customer i (from 0) is scheduled on the day tomorrow +
\* floor(i * interval / duration) at minute start + (i * interval mod
\* duration) of the day; that minute is in [start, end) of the business's
\* day, and the day is one of the campaign's allowed days.
C28_OverflowOnAllowedDays ==
    s_called
        => \A i \in 1..s_n :
               LET interval == Max(staggerSpacing, staggerDuration \div s_n)
                   offset == (i - 1) * interval
                   local == businessMinutes(s_result[i].value)
               IN  /\ ~Nullish(s_result[i])
                   /\ serverMinutes(s_result[i].value) \div 1440
                          = (serverMinutes(s_now) \div 1440) + 1
                                + (offset \div staggerDuration)
                   /\ serverMinutes(s_result[i].value) % 1440
                          = staggerStart + (offset % staggerDuration)
                   /\ local % 1440 >= staggerStart
                   /\ local % 1440 < staggerEnd
                   /\ WeekDays[((local \div 1440) % 7) + 1] \in staggerAllowedDays

(***************************************************************************)
(* Properties of the dispatch phase                                        *)
(***************************************************************************)

\* replica r's step runs the claim of the call it is at
claimAttempted(r) ==
    /\ cam[r].pc = "call"
    /\ r \in hist'[callCurrent(r)].attempts
    /\ r \notin hist[callCurrent(r)].attempts

StatedTooSoon(c, now) ==
    LET started == {campaign_calls[k].started_at.value :
                       k \in {j \in DOMAIN campaign_calls :
                                 /\ campaign_calls[j].campaign_id = c
                                 /\ campaign_calls[j].status \in {"IN_PROGRESS", "COMPLETED"}
                                 /\ ~Nullish(campaign_calls[j].started_at)}}
        minutes == IF Nullish(campaigns[c].min_minutes_between_calls)
                   THEN 5
                   ELSE campaigns[c].min_minutes_between_calls.value
    IN  \E t \in started :
            /\ \A u \in started : u <= t
            /\ now - t < minutes * MsPerMinute

claimedInThisRun(r, k) ==
    /\ cam[r].pc \in {"dispatch", "revert"}
    /\ callCurrent(r) = k
    /\ r \in hist[k].wins
\* the count a run reads for a campaign is the number of its IN_PROGRESS
\* calls, whenever they were started
countsEveryInProgress ==
    [][\A r \in Replicas :
          (cam[r].pc = "count" /\ cam'[r].pc = "spacing")
              => cam'[r].counted =
                     Cardinality({k \in DOMAIN campaign_calls :
                         /\ campaign_calls[k].campaign_id = campaignCurrent(r)
                         /\ campaign_calls[k].status = "IN_PROGRESS"})]_vars

\* C30 as stated: a step of the campaign loop changes the status of an
\* IN_PROGRESS call only as the revert to QUEUED by the replica that claimed
\* it in the same run; every run counts every IN_PROGRESS call.
C30_NoReaper ==
    /\ [][\A k \in DOMAIN campaign_calls :
            (/\ campaign_calls[k].status = "IN_PROGRESS"
             /\ campaign_calls'[k].status # "IN_PROGRESS"
             /\ cam' # cam)
            => \E r \in Replicas :
                   /\ claimedInThisRun(r, k)
                   /\ cam[r].pc = "revert"
                   /\ campaign_calls'[k].status = "QUEUED"]_vars
    /\ countsEveryInProgress
\* C30 amended: a step of the campaign loop changes the status of an
\* IN_PROGRESS call only as a step of the replica that claimed it in the same
\* run: the revert to QUEUED when the dispatch raised, or the mark FAILED when
\* LiveKit is not configured; every run counts every IN_PROGRESS call.
C30_NoReaperAmended ==
    /\ [][\A k \in DOMAIN campaign_calls :
            (/\ campaign_calls[k].status = "IN_PROGRESS"
             /\ campaign_calls'[k].status # "IN_PROGRESS"
             /\ cam' # cam)
            => \E r \in Replicas :
                   /\ claimedInThisRun(r, k)
                   /\ \/ /\ cam[r].pc = "revert"
                         /\ campaign_calls'[k].status = "QUEUED"
                      \/ /\ cam[r].pc = "dispatch"
                         /\ ~livekitEnabled
                         /\ campaign_calls'[k].status = "FAILED"]_vars
    /\ countsEveryInProgress
\* a call claimed by an earlier run is still IN_PROGRESS, and a later run has
\* counted it for its campaign
C30_Witness ==
    \E r \in Replicas, k \in DOMAIN campaign_calls :
        /\ campaign_calls[k].status = "IN_PROGRESS"
        /\ cam[r].pc \in {"spacing", "call"}
        /\ campaignCurrent(r) = campaign_calls[k].campaign_id
        /\ cam[r].now > campaign_calls[k].started_at.value
        /\ cam[r].counted >= 1

\* C29: in each process at most one run of the reminder loop and at most
\* one run of the campaign loop is under way, and no step of a process that
\* has a run of a loop under way starts another run of that loop.
C29_OneRunPerLoop ==
    /\ [](\A r \in Replicas : rem[r].active <= 1 /\ cam[r].active <= 1)
    /\ [][\A r \in Replicas :
            /\ rem[r].running => rem'[r].active <= rem[r].active
            /\ cam[r].running => cam'[r].active <= cam[r].active]_vars
\* a run of the campaign loop holds a call it has claimed while the interval
\* of the timer has gone by since it started: the timer has fired during the run
C29_Witness ==
    \E r \in Replicas :
        /\ cam[r].running
        /\ cam[r].pc \in {"dispatch", "log", "revert"}
        /\ clock >= cam[r].now + MsPerMinute

(***************************************************************************)
(* Properties of the webhook's validation                                  *)
(***************************************************************************)

\* C23: on a server with a webhook secret, every event the handler has acted
\* on carried a signature that verifies and a timestamp at most five minutes
\* from the time of its arrival.
C23_OnlyVerifiedEvents ==
    \A i \in DOMAIN handled :
        /\ handled[i].signature = Val("valid")
        /\ ~Nullish(handled[i].timestamp)
        /\ handled[i].timestamp # NaN
        /\ timestampAge(clock, handled[i].timestamp).value <= 5 * 60 * 1000

(***************************************************************************)
(* Properties of the transcript route                                      *)
(***************************************************************************)

\* the save of a report whose transcript was classified stores the
\* classification, whatever outcome the agent reported
classificationSupersedes ==
    [][\A id \in LogIds :
          (/\ transcript_reqs[id].pc = "save"
           /\ transcript_reqs'[id].pc = "idle"
           /\ ~Nullish(transcript_reqs[id].geminiResult))
          => log_rows'[id].call_outcome = transcript_reqs[id].geminiResult]_vars

\* C22 as stated: the classification supersedes, and every stored outcome is
\* one of the outcomes of the classification, VALID_CALL_OUTCOMES.
C22_ClassificationSupersedes ==
    /\ classificationSupersedes
    /\ [](\A id \in LogIds :
            ~Nullish(log_rows[id].call_outcome)
                => log_rows[id].call_outcome.value \in VALID_CALL_OUTCOMES)

(***************************************************************************)
(* Properties of the campaign route                                        *)
(***************************************************************************)

\* C24: at every moment b2b_campaigns holds at most one row for a business
\* and a type, and a step that adds a row adds one row whose pair had none.
C24_OneCampaignPerPair ==
    /\ [](\A i, j \in DOMAIN campaigns :
            (/\ campaigns[i].business_id = campaigns[j].business_id
             /\ campaigns[i].campaign_type = campaigns[j].campaign_type) => i = j)
    /\ [][campaigns' # campaigns
            => /\ Len(campaigns') = Len(campaigns) + 1
               /\ SubSeq(campaigns', 1, Len(campaigns)) = campaigns
               /\ LET row == campaigns'[Len(campaigns')]
                  IN  rowsOfPair(campaigns, row.business_id, row.campaign_type) = {}]_vars
\* two requests for one pair both passed the query for an existing row; one
\* created the campaign, the insert of the other was refused
C24_Witness ==
    \E r1, r2 \in CreateReqs :
        /\ create_reqs[r1].status = 201
        /\ create_reqs[r2].status = 500
        /\ create_reqs[r1].businessId = create_reqs[r2].businessId
        /\ create_reqs[r1].campaign_type = create_reqs[r2].campaign_type
        /\ Len(campaigns) = 1

(***************************************************************************)
(* The scan window of the reminder loop                                    *)
(***************************************************************************)

\* the appointments with a lead of more than 24 hours
longLead(a) == reminderMinutesOf(appointments[a]) * MsPerMinute > DayMs

\* the appointments a replica has taken from the query in its current run
scanned(r) == {rem[r].pending[i] : i \in 1..Len(rem[r].pending)}

\* C31: the scan takes SCHEDULED appointments due at most 24 hours ahead, so
\* an appointment with a lead of more than 24 hours is no candidate of a run
\* at its reminder time, and it is in a run's list, and claimed, only once
\* scheduled_at - now <= 24h
C31_ScanWindow ==
    \A a \in DOMAIN appointments :
        longLead(a) =>
            /\ a \notin reminderCandidates(reminderTimeOf(appointments[a]))
            /\ (\/ appointments[a].status # "SCHEDULED"
                \/ \E r \in Replicas : a \in scanned(r))
               => appointments[a].scheduled_at - clock <= DayMs

\* a long-lead appointment that was out of the query at the start has been
\* claimed, and its call placed, after the clock brought it into the query
C31_Witness ==
    \E a \in DOMAIN appointments :
        /\ longLead(a)
        /\ a \notin reminderCandidates(0)
        /\ appointments[a].status = "REMINDED"
        /\ placed[a] > 0

(***************************************************************************)
(* Overlapping evaluations of one campaign                                 *)
(***************************************************************************)

\* the calls of campaign c to customer u inserted since the start, which is
\* less than one cycle ago in every state
callsOfCycle(c, u) ==
    {k \in DOMAIN campaign_calls :
        /\ campaign_calls[k].campaign_id = c
        /\ campaign_calls[k].customer_id = u
        /\ campaign_calls[k].created_at >= 0}

\* C32: replicas that evaluate the same campaign in overlapping ticks insert
\* at most one campaign call per campaign and customer in one cycle
C32_OneCallPerCustomerAndCycle ==
    \A c \in DOMAIN campaigns : \A u \in DOMAIN customers :
        Cardinality(callsOfCycle(c, u)) <= 1

(***************************************************************************)
(* The revert of a claim and the other writers of the status               *)
(***************************************************************************)

\* C33: the revert after a failed dispatch turns back the replica's own
\* claim only: the step that writes SCHEDULED finds the appointment REMINDED,
\* and the step that writes QUEUED finds the campaign call IN_PROGRESS,
\* never a status that another writer left there since the claim
C33_RevertOnlyOwnClaim ==
    [][\A r \in Replicas :
          /\ rem[r].pc = "revert" /\ rem'[r] # rem[r]
                => appointments[reminderCurrent(r)].status = "REMINDED"
          /\ cam[r].pc = "revert" /\ cam'[r] # cam[r]
                => campaign_calls[callCurrent(r)].status = "IN_PROGRESS"]_vars

\* C34: the IN_PROGRESS calls of a campaign never number more than its
\* max_concurrent_calls (2 when the column is empty), with replicas running
\* the dispatch phase of the campaign in overlapping ticks too
C34_ConcurrencyCap ==
    \A c \in DOMAIN campaigns :
        inProgressCount(c)
            <= NumOrDefault(campaigns[c].max_concurrent_calls, DefaultMaxConcurrentCalls)

(***************************************************************************)
(* The outcome of a call of the basic path, once written                   *)
(***************************************************************************)

FinalOutcomes == {Val("CONFIRMED"), Val("RESCHEDULED"), Val("VOICEMAIL")}

\* C35: once the call log of a call has the outcome CONFIRMED, RESCHEDULED
\* or VOICEMAIL, no later event of the call changes the outcome of the call
\* log or the status of the appointment
C35_OutcomeStable ==
    [][call_log.call_outcome \in FinalOutcomes
          => /\ call_log'.call_outcome = call_log.call_outcome
             /\ appointments'[appointmentId].status
                    = appointments[appointmentId].status]_vars

(***************************************************************************)
(* The lifecycle of a campaign call                                        *)
(***************************************************************************)

LifecycleSteps ==
    {<<"QUEUED", "IN_PROGRESS">>, <<"IN_PROGRESS", "QUEUED">>,
     <<"QUEUED", "SKIPPED">>, <<"IN_PROGRESS", "FAILED">>,
     <<"IN_PROGRESS", "COMPLETED">>}

\* C36: the status of a campaign call changes only QUEUED -> IN_PROGRESS,
\* IN_PROGRESS -> QUEUED, QUEUED -> SKIPPED, IN_PROGRESS -> FAILED and
\* IN_PROGRESS -> COMPLETED, so a COMPLETED, SKIPPED or FAILED call keeps its
\* status, whatever the ticks and the result reports
C36_Lifecycle ==
    [][\A k \in DOMAIN campaign_calls :
          campaign_calls'[k].status # campaign_calls[k].status
              => <<campaign_calls[k].status, campaign_calls'[k].status>>
                     \in LifecycleSteps]_vars

(***************************************************************************)
(* The release of the running flags                                        *)
(***************************************************************************)

\* C37: whenever a run of a loop has set the running flag of its process,
\* the flag is eventually false again
C37_FlagReleased ==
    \A r \in Replicas :
        /\ rem[r].running ~> ~rem[r].running
        /\ cam[r].running ~> ~cam[r].running

\* a replica has claimed an appointment in a run of several steps, and the
\* run has returned
C37_Witness ==
    \E r \in Replicas, a \in DOMAIN appointments :
        /\ r \in hist[a].wins
        /\ rem[r].pc = "idle"
        /\ ~rem[r].running

(***************************************************************************)
(* The sessions of one handle                                              *)
(***************************************************************************)

\* the live sessions of handle h that have been created and have not closed
openSessions(h) ==
    ai[h].orphans + (IF ai[h].live \in {"open", "closing"} THEN 1 ELSE 0)

\* C38: at most one live session is open per handle, an answered event
\* delivered again included, and a session of the map is the handle's only
\* open session
C38_OneSessionPerHandle ==
    \A h \in Handles : openSessions(h) <= 1

(***************************************************************************)
(* The run time of an enabled campaign                                     *)
(***************************************************************************)

\* C39: every enabled campaign has a next_run_at, whatever the toggles, the
\* updates and the evaluations that have run since it was created
C39_EnabledHasNextRun ==
    \A c \in DOMAIN campaigns :
        campaigns[c].enabled => ~Nullish(campaigns[c].next_run_at)

\* a campaign created disabled has been enabled and evaluated, and its
\* run time is one cycle after the evaluation
C39_Witness ==
    \E c \in DOMAIN campaigns :
        /\ campaigns[c].enabled
        /\ ~Nullish(campaigns[c].last_run_at)
        /\ campaigns[c].next_run_at.value > campaigns[c].last_run_at.value

(***************************************************************************)
(* The reminder of a due appointment                                       *)
(***************************************************************************)

\* appointment a is SCHEDULED with a phone the loop accepts and is due
dueForReminder(a) ==
    /\ appointments[a].status = "SCHEDULED"
    /\ ~phoneMissing(appointments[a].phone)
    /\ matchesE164(appointments[a].phone.value)
    /\ shouldTriggerReminder(appointments[a], clock)

\* appointment a is REMINDED, its call is placed and logged
reminded(a) ==
    /\ appointments[a].status = "REMINDED"
    /\ placed[a] > 0
    /\ call_logs[a] > 0

\* a's scheduled_at is at most one hour behind every time of the model
staysInScan(a) ==
    \A t \in ClockTimes : appointments[a].scheduled_at >= t - HourMs

InitFilter == FilterInit /\ WindowIdle /\ LoopIdle /\ StaggerIdle /\ CallIdle /\ SessionIdle /\ CallbackIdle
NextFilter == FilterCall
SpecFilter == InitFilter /\ [][NextFilter]_vars

InitWindow == WindowInit /\ FilterIdle /\ LoopIdle /\ StaggerIdle /\ CallIdle /\ SessionIdle /\ CallbackIdle
NextWindow == WindowCall
SpecWindow == InitWindow /\ [][NextWindow]_vars

Init == FilterIdle /\ WindowIdle /\ LoopInit /\ StaggerIdle /\ CallIdle /\ SessionIdle /\ CallbackIdle
Next == Tick \/ ReminderNext \/ CampaignNext
Spec == Init /\ [][Next]_vars

\* the reminder loop on appointments with a lead of more than one day
InitScan == FilterIdle /\ WindowIdle /\ ScanInit /\ StaggerIdle /\ CallIdle /\ SessionIdle /\ CallbackIdle
NextScan == Tick \/ ReminderNext
SpecScan == InitScan /\ [][NextScan]_vars

\* the two loops on a database of one work item, with every await of a run
\* settling: a run that can take its next step takes it
reminderStep(r) ==
    ReminderClaim(r) \/ ReminderDispatch(r) \/ ReminderLog(r) \/ ReminderRevert(r)
campaignStep(r) ==
    \/ CampaignGate(r) \/ CampaignCount(r) \/ CampaignSpacing(r) \/ CampaignClaim(r)
    \/ CampaignDispatch(r) \/ CampaignLog(r) \/ CampaignRevert(r)
FairRuns == \A r \in Replicas : WF_vars(reminderStep(r)) /\ WF_vars(campaignStep(r))
InitLive == Init /\ Cardinality(DOMAIN appointments \cup DOMAIN campaign_calls) = 1
SpecLive == InitLive /\ [][Next]_vars /\ FairRuns

\* the reminder loop with ticks that keep coming, awaits that settle, and a
\* database and a Voice Provider that fail finitely often: time passes, a
\* replica that can start a run with work starts one, a run takes its next
\* step, and a claim and a dial that are attempted again and again succeed
FairReminders ==
    /\ WF_vars(Tick)
    /\ \A r \in Replicas :
          /\ SF_vars(ReminderStart(r) /\ rem'[r].pc = "item")
          /\ WF_vars(reminderStep(r))
          /\ SF_vars(ReminderClaim(r) /\ appointments' # appointments)
          /\ SF_vars(ReminderDispatch(r) /\ placed' # placed)
InitRemind == FilterIdle /\ WindowIdle /\ RemindInit /\ StaggerIdle /\ CallIdle /\ SessionIdle /\ CallbackIdle
NextRemind == Tick \/ ReminderNext
SpecRemind == InitRemind /\ [][NextRemind]_vars /\ FairReminders

\* the reminder loop together with the routes that write an appointment's
\* status, on a database of one appointment
InitOps == Init /\ Cardinality(DOMAIN appointments) = 1
NextOps == Tick \/ ReminderNext \/ RoutesNext
SpecOps == InitOps /\ [][NextOps]_vars

\* the dispatch phase of the campaign loop together with the route on which
\* the agent reports the result of a campaign call, on a database where every
\* call is a call of the campaign in service
InitDispatch ==
    /\ Init
    /\ appointments = <<>>
    /\ \A k \in DOMAIN campaign_calls : campaign_calls[k].campaign_id = MaxCampaigns
    /\ \A c \in DOMAIN campaigns : c # MaxCampaigns => ~campaigns[c].enabled
NextDispatch == Tick \/ CampaignNext \/ CallbacksNext
SpecDispatch == InitDispatch /\ [][NextDispatch]_vars

\* the dispatch phase and the result route on a campaign that allows one call
\* at a time
InitCap == FilterIdle /\ WindowIdle /\ CapInit /\ StaggerIdle /\ CallIdle /\ SessionIdle /\ CallbackIdle
SpecCap == InitCap /\ [][NextDispatch]_vars

\* the campaign loop with its evaluation phase
InitEval == FilterIdle /\ WindowIdle /\ EvalInit /\ StaggerIdle /\ CallIdle /\ SessionIdle /\ CallbackIdle
NextEval == Tick \/ CampaignNext \/ EvalNext
SpecEval == InitEval /\ [][NextEval]_vars

\* one call on the basic path, from the dial to the last webhook
InitCall ==
    FilterIdle /\ WindowIdle /\ StaggerIdle /\ CallInit /\ SessionIdle /\ CallbackIdle
NextCall == CallNext
SpecCall == InitCall /\ [][NextCall]_vars
\* the event loop runs the callback of a timer that is due
FairCall == WF_vars(HangupTimer)
SpecCallLive == SpecCall /\ FairCall

\* one call on the basic path and the requests of others to its webhook, on
\* a server with TELNYX_WEBHOOK_SECRET set
InitWebhook ==
    FilterIdle /\ WindowIdle /\ StaggerIdle /\ CallInit /\ SessionIdle /\ CallbackIdle
NextWebhook == WebhookNext
SpecWebhook == InitWebhook /\ [][NextWebhook]_vars

\* the staggering of an evaluation
InitStagger ==
    FilterIdle /\ WindowIdle /\ LoopIdle /\ CallIdle /\ SessionIdle /\ CallbackIdle
        /\ StaggerInit
NextStagger == StaggerCall
SpecStagger == InitStagger /\ [][NextStagger]_vars

\* the calls of the AI path
InitAi == FilterIdle /\ WindowIdle /\ LoopIdle /\ StaggerIdle /\ CallIdle /\ SessionIdle /\ CallbackIdle
NextAi == AiNext
SpecAi == InitAi /\ [][NextAi]_vars

\* a campaign from its creation on: the toggle and the update of the
\* dashboard, and the campaign loop with its evaluation phase.  The calls an
\* evaluation inserts are scheduled from the next day on, so in the first day
\* of a campaign no call is due and a run has no dispatch steps.
InitToggle == FilterIdle /\ WindowIdle /\ ToggleInit /\ StaggerIdle /\ CallIdle /\ SessionIdle
NextToggle ==
    \/ Tick
    \/ \E r \in Replicas : CampaignStart(r) \/ CampaignBusy(r) \/ CampaignGate(r)
    \/ EvalNext
    \/ ToggleNext
SpecToggle == InitToggle /\ [][NextToggle]_vars

\* the AI path for one call with an answered event delivered more than once
SpecRedelivered == InitAi /\ [][AiNextRedelivered]_vars

\* the dashboard's requests to create campaigns
InitCreate ==
    FilterIdle /\ WindowIdle /\ LoopIdle /\ StaggerIdle /\ CallIdle /\ SessionIdle /\ CreateInit
NextCreate == CreateNext
SpecCreate == InitCreate /\ [][NextCreate]_vars

\* the agent's transcript reports
InitTranscript ==
    FilterIdle /\ WindowIdle /\ LoopIdle /\ StaggerIdle /\ CallIdle /\ SessionIdle /\ TranscriptInit
NextTranscript == TranscriptNext
SpecTranscript == InitTranscript /\ [][NextTranscript]_vars

====
